---------------------------- MODULE Spec2Model ----------------------------
(***************************************************************************)
(* Validated-query caching and execution-routing engine                    *)
(* (ValidatedQueriesService and its HTTP routes).                          *)
(*                                                                         *)
(* SQL text, filter keys and string filter values are sequences of         *)
(* one-character strings, so that the regular-expression rewrites of the   *)
(* templating code act on characters as they do in the program.            *)
(***************************************************************************)
EXTENDS Integers, Sequences, FiniteSets, TLC

(***************************************************************************)
(* Characters and character classes of the regular expressions             *)
(***************************************************************************)
LowerSeq == << "a","b","c","d","e","f","g","h","i","j","k","l","m",
               "n","o","p","q","r","s","t","u","v","w","x","y","z" >>
UpperSeq == << "A","B","C","D","E","F","G","H","I","J","K","L","M",
               "N","O","P","Q","R","S","T","U","V","W","X","Y","Z" >>
DigitSeq == << "0","1","2","3","4","5","6","7","8","9" >>

Range(s) == { s[i] : i \in 1..Len(s) }
Lower == Range(LowerSeq)
Upper == Range(UpperSeq)
Digit == Range(DigitSeq)

IndexOf(seq, c) == CHOOSE i \in 1..Len(seq) : seq[i] = c

\* [a-zA-Z_]
IdStart == Lower \cup Upper \cup {"_"}
\* [a-zA-Z0-9_]  (also the word characters of \b)
IdChar == IdStart \cup Digit
\* [a-zA-Z0-9_.]
IdDotChar == IdChar \cup {"."}
\* \s
Space == {" ", "\n", "\t"}

\* UTF-16 code unit of a character that may occur in a filter key
CharCode(c) ==
    IF c \in Digit THEN 47 + IndexOf(DigitSeq, c)
    ELSE IF c \in Upper THEN 64 + IndexOf(UpperSeq, c)
    ELSE IF c = "_" THEN 95
    ELSE IF c \in Lower THEN 96 + IndexOf(LowerSeq, c)
    ELSE 0

\* the case folding of the regular expressions' i flag
LowerCase(c) == IF c \in Upper THEN LowerSeq[IndexOf(UpperSeq, c)] ELSE c

(***************************************************************************)
(* Text helpers                                                            *)
(***************************************************************************)
Sub(s, i, j) == IF i > j THEN << >> ELSE SubSeq(s, i, j)

\* pat occurs in s at index i
StartsAt(s, i, pat) ==
    /\ i >= 1
    /\ i + Len(pat) - 1 <= Len(s)
    /\ \A k \in 1..Len(pat) : s[i + k - 1] = pat[k]

\* the same, ignoring case
StartsAtCI(s, i, pat) ==
    /\ i >= 1
    /\ i + Len(pat) - 1 <= Len(s)
    /\ \A k \in 1..Len(pat) : LowerCase(s[i + k - 1]) = LowerCase(pat[k])

\* String.prototype.includes
Includes(s, pat) == \E i \in 1..(Len(s) + 1) : StartsAt(s, i, pat)

\* first index >= i whose character is outside class (Len(s)+1 when none):
\* the end of a greedy  [class]*  that starts at i
RunEnd(s, i, class) ==
    IF \E j \in i..Len(s) : s[j] \notin class
    THEN CHOOSE j \in i..Len(s) :
             /\ s[j] \notin class
             /\ \A k \in i..(j - 1) : s[k] \in class
    ELSE Len(s) + 1

\* the leftmost index of J, 0 when there is none (a global replace goes from
\* match to match, left to right)
Leftmost(J) == IF J = {} THEN 0 ELSE CHOOSE j \in J : \A k \in J : j <= k

\* \b holds between index i-1 and i
WordBoundary(s, i) ==
    LET before == i > 1 /\ i - 1 <= Len(s) /\ s[i - 1] \in IdChar
        after  == i >= 1 /\ i <= Len(s) /\ s[i] \in IdChar
    IN  before # after

RECURSIVE Concat(_)
Concat(ss) == IF ss = << >> THEN << >> ELSE Head(ss) \o Concat(Tail(ss))

RECURSIVE Join(_, _)
Join(ss, sep) ==
    IF ss = << >> THEN << >>
    ELSE IF Len(ss) = 1 THEN ss[1]
    ELSE ss[1] \o sep \o Join(Tail(ss), sep)


RECURSIVE SplitFrom(_, _, _)
SplitFrom(s, sep, i) ==
    LET e == RunEnd(s, i, Range(s) \ {sep})
    IN  IF e > Len(s) THEN << Sub(s, i, Len(s)) >>
        ELSE << Sub(s, i, e - 1) >> \o SplitFrom(s, sep, e + 1)

\* String.prototype.split on a one-character separator
Split(s, sep) == SplitFrom(s, sep, 1)

\* String.prototype.trim
Trim(s) ==
    IF \A i \in 1..Len(s) : s[i] \in Space THEN << >>
    ELSE LET a == RunEnd(s, 1, Space)
             b == CHOOSE j \in a..Len(s) :
                      /\ s[j] \notin Space
                      /\ \A k \in (j + 1)..Len(s) : s[k] \in Space
         IN  Sub(s, a, b)

MapTrim(ss) == [ i \in 1..Len(ss) |-> Trim(ss[i]) ]

NonEmpty(ss) == SelectSeq(ss, LAMBDA x : x # << >>)

(***************************************************************************)
(* String.prototype.replace with a string replacement: the replacement is  *)
(* a pattern in which $$, $&, $' and $n are expanded against the match     *)
(* (ECMAScript GetSubstitution; the pattern for the text before the match  *)
(* is left out: no text of the model holds a backquote).  ms is the first  *)
(* index of the match, me the index after it, groups the captures.         *)
(***************************************************************************)
DigitVal(c) == IndexOf(DigitSeq, c) - 1

RECURSIVE GetSubstitution(_, _, _, _, _, _)
GetSubstitution(repl, k, s, ms, me, groups) ==
    IF k > Len(repl) THEN << >>
    ELSE IF repl[k] # "$" \/ k = Len(repl)
    THEN << repl[k] >> \o GetSubstitution(repl, k + 1, s, ms, me, groups)
    ELSE LET n == repl[k + 1]
             m == Len(groups)
             two == IF n \in Digit /\ k + 2 <= Len(repl) /\ repl[k + 2] \in Digit
                    THEN 10 * DigitVal(n) + DigitVal(repl[k + 2])
                    ELSE 0
         IN  IF n = "$"
             THEN << "$" >> \o GetSubstitution(repl, k + 2, s, ms, me, groups)
             ELSE IF n = "&"
             THEN Sub(s, ms, me - 1) \o GetSubstitution(repl, k + 2, s, ms, me, groups)
             ELSE IF n = "'"
             THEN Sub(s, me, Len(s)) \o GetSubstitution(repl, k + 2, s, ms, me, groups)
             ELSE IF two >= 1 /\ two <= m
             THEN groups[two] \o GetSubstitution(repl, k + 3, s, ms, me, groups)
             ELSE IF n \in Digit /\ DigitVal(n) >= 1 /\ DigitVal(n) <= m
             THEN groups[DigitVal(n)] \o GetSubstitution(repl, k + 2, s, ms, me, groups)
             ELSE << "$" >> \o GetSubstitution(repl, k + 1, s, ms, me, groups)

(***************************************************************************)
(* The regular expressions of replacePlaceholders (rs = FALSE) and of      *)
(* replacePlaceholdersForRedshift (rs = TRUE).  ph is ":" followed by the  *)
(* placeholder name, which holds no regular-expression metacharacter.      *)
(***************************************************************************)
\* new RegExp(placeholder)  /  new RegExp(`(?<!:)${placeholder}\\b`)  at index i
MatchPlaceholder(s, i, ph, rs) ==
    /\ StartsAt(s, i, ph)
    /\ rs => /\ (i = 1 \/ s[i - 1] # ":")
             /\ WordBoundary(s, i + Len(ph))

RECURSIVE ReplaceAllFrom(_, _, _, _, _)
\* the text from index i on, m being the index of the next match
ReplaceAllAt(s, ph, repl, rs, i, m) ==
    IF m = 0 THEN Sub(s, i, Len(s))
    ELSE Sub(s, i, m - 1)
             \o GetSubstitution(repl, 1, s, m, m + Len(ph), << >>)
             \o ReplaceAllFrom(s, ph, repl, rs, m + Len(ph))

ReplaceAllFrom(s, ph, repl, rs, i) ==
    ReplaceAllAt(s, ph, repl, rs, i,
                 Leftmost({j \in i..Len(s) : MatchPlaceholder(s, j, ph, rs)}))

\* processedSql.replace(new RegExp(placeholder, 'g'), repl)
ReplaceAll(s, ph, repl, rs) == ReplaceAllFrom(s, ph, repl, rs, 1)

\* ([a-zA-Z_][a-zA-Z0-9_.]*\s*=\s*) matched from index i, where s[i] is in
\* [a-zA-Z_]: the index after the group, 0 when it does not match
EqualityGroupEnd(s, i) ==
    LET e1 == RunEnd(s, i + 1, IdDotChar)
        e2 == RunEnd(s, e1, Space)
    IN  IF e2 <= Len(s) /\ s[e2] = "=" THEN RunEnd(s, e2 + 1, Space) ELSE 0

\* equalityPattern matches at index i
EqualityMatch(s, i, ph, rs) ==
    /\ i <= Len(s)
    /\ s[i] \in IdStart
    /\ EqualityGroupEnd(s, i) > 0
    /\ MatchPlaceholder(s, EqualityGroupEnd(s, i), ph, rs)

RECURSIVE ReplaceEqualityFrom(_, _, _, _, _)
ReplaceEqualityAt(s, ph, repl, rs, i, m) ==
    IF m = 0 THEN Sub(s, i, Len(s))
    ELSE Sub(s, i, m - 1)
             \o GetSubstitution(repl, 1, s, m, EqualityGroupEnd(s, m) + Len(ph),
                                << Sub(s, m, EqualityGroupEnd(s, m) - 1) >>)
             \o ReplaceEqualityFrom(s, ph, repl, rs, EqualityGroupEnd(s, m) + Len(ph))

ReplaceEqualityFrom(s, ph, repl, rs, i) ==
    ReplaceEqualityAt(s, ph, repl, rs, i,
                      Leftmost({j \in i..Len(s) : EqualityMatch(s, j, ph, rs)}))

\* \s+ from index i followed by the keyword kw (flag i): the index after
\* the keyword, 0 when it does not match
SpacesThen(s, i, kw) ==
    LET e == RunEnd(s, i, Space)
    IN  IF i > 0 /\ e > i /\ StartsAtCI(s, e, kw) THEN e + Len(kw) ELSE 0

kwIS == << "I", "S" >>
kwNULL == << "N", "U", "L", "L" >>
kwOR == << "O", "R" >>

\* nullCheckPattern matched at index i: << start of group 1, index after
\* group 1, index after the match >>, << >> when it does not match
NullCheckMatch(s, i, ph) ==
    IF ~ (i <= Len(s) /\ s[i] = "(" /\ StartsAtCI(s, i + 1, ph)) THEN << >>
    ELSE LET a == SpacesThen(s, i + 1 + Len(ph), kwIS)
             b == SpacesThen(s, a, kwNULL)
             c == SpacesThen(s, b, kwOR)
             g == IF c > 0 /\ RunEnd(s, c, Space) > c THEN RunEnd(s, c, Space) ELSE 0
             p == IF g > 0 /\ g <= Len(s) /\ s[g] \in IdStart
                  THEN EqualityGroupEnd(s, g) ELSE 0
         IN  IF /\ p > 0
                /\ StartsAtCI(s, p, ph)
                /\ p + Len(ph) <= Len(s)
                /\ s[p + Len(ph)] = ")"
             THEN << g, p, p + Len(ph) + 1 >>
             ELSE << >>

RECURSIVE ReplaceNullCheckFrom(_, _, _, _)
\* m is the match at index at
ReplaceNullCheckAt(s, ph, repl, i, at, m) ==
    IF at = 0 THEN Sub(s, i, Len(s))
    ELSE Sub(s, i, at - 1)
             \o GetSubstitution(repl, 1, s, at, m[3], << Sub(s, m[1], m[2] - 1) >>)
             \o ReplaceNullCheckFrom(s, ph, repl, m[3])

ReplaceNullCheckNext(s, ph, repl, i, at) ==
    ReplaceNullCheckAt(s, ph, repl, i, at,
                       IF at = 0 THEN << >> ELSE NullCheckMatch(s, at, ph))

ReplaceNullCheckFrom(s, ph, repl, i) ==
    ReplaceNullCheckNext(s, ph, repl, i,
                         Leftmost({j \in i..Len(s) : NullCheckMatch(s, j, ph) # << >>}))

\* [...sql.matchAll(placeholderRegex)].map(match => match[1])
RECURSIVE PlaceholdersFrom(_, _, _)
PlaceholdersAt(s, rs, m) ==
    IF m = 0 THEN << >>
    ELSE << Sub(s, m + 1, RunEnd(s, m + 2, IdChar) - 1) >>
             \o PlaceholdersFrom(s, rs, RunEnd(s, m + 2, IdChar))

PlaceholdersFrom(s, rs, i) ==
    PlaceholdersAt(s, rs,
                   Leftmost({j \in i..(Len(s) - 1) :
                                /\ s[j] = ":"
                                /\ s[j + 1] \in IdStart
                                /\ rs => (j = 1 \/ s[j - 1] # ":")}))

Placeholders(s, rs) == PlaceholdersFrom(s, rs, 1)

(***************************************************************************)
(* JavaScript values and objects.  A value is [t, s]: its type and, for a  *)
(* string, its characters; for any other type s is the image String(value) *)
(* that a template literal or String() produces.  An object (FilterParams) *)
(* is the sequence of its [k, v] properties in property order.             *)
(***************************************************************************)
Undefined == [t |-> "undefined", s |-> << >>]
Null == [t |-> "null", s |-> << "n", "u", "l", "l" >>]
Str(chars) == [t |-> "string", s |-> chars]
Num(digits) == [t |-> "number", s |-> digits]
Bool(image) == [t |-> "boolean", s |-> image]
Arr(image) == [t |-> "array", s |-> image]

HasKey(obj, key) == \E i \in 1..Len(obj) : obj[i].k = key

\* filters[key]
Get(obj, key) ==
    IF HasKey(obj, key)
    THEN obj[CHOOSE i \in 1..Len(obj) : obj[i].k = key].v
    ELSE Undefined

\* ToBoolean(value), as used by  value || fallback
Truthy(v) ==
    CASE v.t \in {"undefined", "null"} -> FALSE
      [] v.t = "string" -> v.s # << >>
      [] v.t = "number" -> v.s # << "0" >>
      [] v.t = "boolean" -> v.s = << "t", "r", "u", "e" >>
      [] OTHER -> TRUE

RECURSIVE NumVal(_)
NumVal(digits) ==
    IF digits = << >> THEN 0
    ELSE 10 * NumVal(Sub(digits, 1, Len(digits) - 1)) + DigitVal(digits[Len(digits)])

\* a canonical array index: such keys come first in property order, ascending
IsArrayIndex(key) ==
    /\ key # << >>
    /\ \A i \in 1..Len(key) : key[i] \in Digit
    /\ (key[1] # "0" \/ Len(key) = 1)

\* obj[key] = v  (an existing property keeps its place)
ObjSet(obj, key, v) ==
    IF HasKey(obj, key)
    THEN [ i \in 1..Len(obj) |-> IF obj[i].k = key THEN [k |-> key, v |-> v] ELSE obj[i] ]
    ELSE IF IsArrayIndex(key)
    THEN LET before == SelectSeq(obj, LAMBDA p : IsArrayIndex(p.k) /\ NumVal(p.k) < NumVal(key))
             after  == SelectSeq(obj, LAMBDA p : ~ (IsArrayIndex(p.k) /\ NumVal(p.k) < NumVal(key)))
         IN  before \o << [k |-> key, v |-> v] >> \o after
    ELSE Append(obj, [k |-> key, v |-> v])

\* the object that results from setting the properties in the order of pairs
RECURSIVE ObjFrom(_, _)
ObjFrom(obj, pairs) ==
    IF pairs = << >> THEN obj
    ELSE ObjFrom(ObjSet(obj, Head(pairs).k, Head(pairs).v), Tail(pairs))

\* Object.keys(obj)
Keys(obj) == [ i \in 1..Len(obj) |-> obj[i].k ]

\* a < b in the order of Array.prototype.sort() without a comparator
RECURSIVE StrLess(_, _)
StrLess(a, b) ==
    IF b = << >> THEN FALSE
    ELSE IF a = << >> THEN TRUE
    ELSE IF CharCode(Head(a)) # CharCode(Head(b)) THEN CharCode(Head(a)) < CharCode(Head(b))
    ELSE StrLess(Tail(a), Tail(b))

RECURSIVE InsertSorted(_, _)
InsertSorted(sorted, key) ==
    IF sorted = << >> THEN << key >>
    ELSE IF StrLess(key, Head(sorted)) THEN << key >> \o sorted
    ELSE << Head(sorted) >> \o InsertSorted(Tail(sorted), key)

RECURSIVE SortFrom(_, _)
SortFrom(done, rest) ==
    IF rest = << >> THEN done ELSE SortFrom(InsertSorted(done, Head(rest)), Tail(rest))

\* keys.sort()
Sort(keys) == SortFrom(<< >>, keys)

\* JSON.stringify of an object of scalar values: a property whose value is
\* undefined is left out, every other property is written in property order
JSONStringifyObject(obj) == SelectSeq(obj, LAMBDA p : p.v.t # "undefined")

\* crypto.createHash('md5').update(text).digest('hex'): the digest is
\* modelled by the text it is computed from (no collisions)
md5Hex(text) == text


(***************************************************************************)
(* Dates.  A point in time is counted in whole days since 1970-01-01 UTC:  *)
(* applyDefaultFilters subtracts a whole number of days and keeps only the *)
(* date part of toISOString(), so the time of day never shows.             *)
(***************************************************************************)
\* the decimal digits of n, padded with zeros to the given width
RECURSIVE Pad(_, _)
Pad(n, width) ==
    IF width = 0 THEN << >>
    ELSE Pad(n \div 10, width - 1) \o << DigitSeq[(n % 10) + 1] >>

\* date.toISOString().split('T')[0] for years 0001 to 9999 (proleptic
\* Gregorian calendar)
ISODate(day) ==
    LET z   == day + 719468
        era == z \div 146097
        doe == z - era * 146097
        yoe == (doe - doe \div 1460 + doe \div 36524 - doe \div 146096) \div 365
        doy == doe - (365 * yoe + yoe \div 4 - yoe \div 100)
        mp  == (5 * doy + 2) \div 153
        d   == doy - (153 * mp + 2) \div 5 + 1
        m   == IF mp < 10 THEN mp + 3 ELSE mp - 9
        y   == yoe + era * 400 + (IF m <= 2 THEN 1 ELSE 0)
    IN  Pad(y, 4) \o << "-" >> \o Pad(m, 2) \o << "-" >> \o Pad(d, 2)

(***************************************************************************)
(* Cache Key & Filter Normalizer                                           *)
(***************************************************************************)
kStartDate == << "s","t","a","r","t","_","d","a","t","e" >>
kEndDate == << "e","n","d","_","d","a","t","e" >>

\* the window of the default date range, in days
DefaultWindowDays == 30

generateCacheKey_anyFilters(qid, filters) ==
    [ns |-> "validated_query", qid |-> qid, hash |-> md5Hex(<< >>)]

generateCacheKey_unsorted(qid, filters) ==
    [ns |-> "validated_query", qid |-> qid, hash |-> md5Hex(JSONStringifyObject(filters))]

\* `validated_query:${qid}:${filterHash}`
generateCacheKey(qid, filters) ==
    LET sortedKeys    == Sort(Keys(filters))
        sortedFilters == ObjFrom(<< >>, [ i \in 1..Len(sortedKeys) |->
                                          [k |-> sortedKeys[i], v |-> Get(filters, sortedKeys[i])] ])
    IN  [ns |-> "validated_query", qid |-> qid, hash |-> md5Hex(JSONStringifyObject(sortedFilters))]

\* `filter_options:${sql_param}`
generateFilterCacheKey(sql_param) ==
    [ns |-> "filter_options", qid |-> sql_param, hash |-> << >>]

\* { start_date: filters.start_date || <30 days ago>,
\*   end_date: filters.end_date || <today>, ...filters }
applyDefaultFilters(filters, now) ==
    LET thirtyDaysAgo == now - DefaultWindowDays
        start == IF Truthy(Get(filters, kStartDate)) THEN Get(filters, kStartDate)
                 ELSE Str(ISODate(thirtyDaysAgo))
        end   == IF Truthy(Get(filters, kEndDate)) THEN Get(filters, kEndDate)
                 ELSE Str(ISODate(now))
    IN  ObjFrom(<< [k |-> kStartDate, v |-> start], [k |-> kEndDate, v |-> end] >>, filters)

(***************************************************************************)
(* Placeholder Substitution Engine                                         *)
(***************************************************************************)
sqlNULL == << "N", "U", "L", "L" >>

\* v.replace(/'/g, "''")
RECURSIVE EscapeQuotes(_)
EscapeQuotes(v) ==
    IF v = << >> THEN << >>
    ELSE (IF Head(v) = "'" THEN << "'", "'" >> ELSE << Head(v) >>) \o EscapeQuotes(Tail(v))

\* `'${v.replace(/'/g, "''")}'`
Quoted(v) == << "'" >> \o EscapeQuotes(v) \o << "'" >>

\* value.split(',').map(v => v.trim()).filter(v => v)
MultiValues(value) == NonEmpty(MapTrim(Split(value, ",")))

\* values.map(quote).join(', ')
QuotedValues(values) == Join([ i \in 1..Len(values) |-> Quoted(values[i]) ], << ",", " " >>)

\* one iteration of placeholders.forEach, for the placeholder named key
ReplaceOne(processedSql, key, filters, rs) ==
    LET placeholder == << ":" >> \o key
        value == Get(filters, key)
    IN  IF value.t \in {"null", "undefined"} \/ value = Str(<< >>)
        THEN ReplaceAll(processedSql, placeholder, sqlNULL, rs)
        ELSE IF value.t = "string"
        THEN IF "," \in Range(value.s)
             THEN LET values == MultiValues(value.s)
                      quotedValues == QuotedValues(values)
                  IN  IF Len(values) > 0
                      THEN ReplaceNullCheckFrom(
                               ReplaceEqualityFrom(processedSql, placeholder,
                                   << "$", "1", "(" >> \o quotedValues \o << ")" >>, rs, 1),
                               placeholder,
                               << "$", "1", "I", "N", " ", "(" >> \o quotedValues \o << ")" >>, 1)
                      ELSE ReplaceAll(processedSql, placeholder, sqlNULL, rs)
             ELSE ReplaceAll(processedSql, placeholder, Quoted(value.s), rs)
        ELSE ReplaceAll(processedSql, placeholder, value.s, rs)

RECURSIVE ReplaceEach(_, _, _, _)
ReplaceEach(processedSql, placeholders, filters, rs) ==
    IF placeholders = << >> THEN processedSql
    ELSE ReplaceEach(ReplaceOne(processedSql, Head(placeholders), filters, rs),
                     Tail(placeholders), filters, rs)

replacePlaceholders(sql, filters) ==
    ReplaceEach(sql, Placeholders(sql, FALSE), filters, FALSE)

replacePlaceholdersForRedshift(sql, filters) ==
    ReplaceEach(sql, Placeholders(sql, TRUE), filters, TRUE)


(***************************************************************************)
(* Inputs of the pure functions: filter keys, filter values and templates  *)
(***************************************************************************)
kTier == << "t","i","e","r" >>
kAm == << "a","m" >>
kAmRegion == << "a","m","_","r","e","g","i","o","n" >>
kRegion == << "r","e","g","i","o","n" >>
kTen == << "1","0" >>
kNine == << "9" >>

vSingle == Str(<< "p" >>)
vMulti == Str(<< "p",",","s" >>)
vEmpty == Str(<< >>)
vBlankList == Str(<< " ",","," " >>)
vQuote == Str(<< "o","'","k" >>)
vDollar == Str(<< "a","$" >>)
vNumber == Num(<< "5" >>)
vBoolean == Bool(<< "t","r","u","e" >>)
vArray == Arr(<< "a",",","b" >>)
vDate == Str(<< "2","0","2","6","-","0","1","-","1","5" >>)
vCairo == Str(<< "C","a","i","r","o" >>)
\* a value that reads like a placeholder
vColonTier == Str(<< ":" >> \o kTier)

\* WHERE (:tier IS NULL OR m.tier = :tier)
tplGuard ==
    << "W","H","E","R","E"," ","(",":","t","i","e","r"," ","I","S"," ","N","U","L","L"," ","O","R"," ","m",".","t","i","e","r"," ","="," ",":","t","i","e","r",")" >>
\* WHERE (:tier is null or m.tier = :TIER)
tplGuardMixedCase ==
    << "W","H","E","R","E"," ","(",":","t","i","e","r"," ","i","s"," ","n","u","l","l"," ","o","r"," ","m",".","t","i","e","r"," ","="," ",":","T","I","E","R",")" >>
\* a = :am AND r = :am_region
tplPrefix ==
    << "a"," ","="," ",":","a","m"," ","A","N","D"," ","r"," ","="," ",":","a","m","_","r","e","g","i","o","n" >>
\* c::numeric >= :tier
tplCast ==
    << "c",":",":","n","u","m","e","r","i","c"," ",">","="," ",":","t","i","e","r" >>
\* d >= :start_date AND t = :tier
tplDates ==
    << "d"," ",">","="," ",":","s","t","a","r","t","_","d","a","t","e"," ","A","N","D"," ","t"," ","="," ",":","t","i","e","r" >>

\* t != :tier
tplNotEqual ==
    << "t"," ","!","="," ",":","t","i","e","r" >>

(***************************************************************************)
(* Warehouse dialect: applyRedshiftSchemaPrefix and                        *)
(* ensureRedshiftParameterQuoting                                          *)
(***************************************************************************)
\* process.env.REDSHIFT_SCHEMA || 'public'
schemaName == << "p","u","b","l","i","c" >>
schemaPlaceholder == << "$","{","s","c","h","e","m","a","}" >>
tblDeliveries == << "d","e","l","i","v","e","r","i","e","s" >>
tblBusinesses == << "b","u","s","i","n","e","s","s","e","s" >>
fnToChar == << "T","O","_","C","H","A","R" >>
castNumeric == << ":",":","n","u","m","e","r","i","c" >>
sqlIsNull == << "I","S"," ","N","U","L","L" >>
sqlIsNotNull == << "I","S"," ","N","O","T"," ","N","U","L","L" >>

\* sql.replace(/\$\{schema\}/g, schema)
RECURSIVE ReplaceSchemaFrom(_, _)
ReplaceSchemaAt(s, i, m) ==
    IF m = 0 THEN Sub(s, i, Len(s))
    ELSE Sub(s, i, m - 1)
             \o GetSubstitution(schemaName, 1, s, m, m + Len(schemaPlaceholder), << >>)
             \o ReplaceSchemaFrom(s, m + Len(schemaPlaceholder))

ReplaceSchemaFrom(s, i) ==
    ReplaceSchemaAt(s, i, Leftmost({j \in i..Len(s) : StartsAt(s, j, schemaPlaceholder)}))

\* /\b(?<!\.)(deliveries|businesses)\b/ matches table at index i
TableMatch(s, i, table) ==
    /\ StartsAt(s, i, table)
    /\ WordBoundary(s, i)
    /\ (i = 1 \/ s[i - 1] # ".")
    /\ WordBoundary(s, i + Len(table))

\* processedSql.replace(/\b(?<!\.)(deliveries|businesses)\b/g, `${schema}.$1`)
RECURSIVE PrefixTablesFrom(_, _)
\* table is the one matched at index m
PrefixTablesAt(s, i, m, table) ==
    IF m = 0 THEN Sub(s, i, Len(s))
    ELSE Sub(s, i, m - 1)
             \o GetSubstitution(schemaName \o << ".", "$", "1" >>, 1, s, m,
                                m + Len(table), << table >>)
             \o PrefixTablesFrom(s, m + Len(table))

PrefixTablesNext(s, i, m) ==
    PrefixTablesAt(s, i, m,
                   IF m = 0 THEN << >>
                   ELSE CHOOSE t \in {tblDeliveries, tblBusinesses} : TableMatch(s, m, t))

PrefixTablesFrom(s, i) ==
    PrefixTablesNext(s, i,
                     Leftmost({j \in i..Len(s) :
                                  \E table \in {tblDeliveries, tblBusinesses} :
                                      TableMatch(s, j, table)}))

\* sql.replace(new RegExp(op + '\\s*NULL', 'gi'), repl)
RECURSIVE ReplaceNullComparisonFrom(_, _, _, _)
\* e is the index of NULL in the match at index m
ReplaceNullComparisonAt(s, op, repl, i, m, e) ==
    IF m = 0 THEN Sub(s, i, Len(s))
    ELSE Sub(s, i, m - 1)
             \o GetSubstitution(repl, 1, s, m, e + Len(kwNULL), << >>)
             \o ReplaceNullComparisonFrom(s, op, repl, e + Len(kwNULL))

ReplaceNullComparisonNext(s, op, repl, i, m) ==
    ReplaceNullComparisonAt(s, op, repl, i, m,
                            IF m = 0 THEN 0 ELSE RunEnd(s, m + Len(op), Space))

ReplaceNullComparisonFrom(s, op, repl, i) ==
    ReplaceNullComparisonNext(s, op, repl, i,
        Leftmost({j \in i..Len(s) :
                     /\ StartsAt(s, j, op)
                     /\ StartsAtCI(s, RunEnd(s, j + Len(op), Space), kwNULL)}))

ensureRedshiftParameterQuoting(sql) ==
    LET s1 == ReplaceNullComparisonFrom(sql, << "=" >>, sqlIsNull, 1)
        s2 == ReplaceNullComparisonFrom(s1, << "!", "=" >>, sqlIsNotNull, 1)
    IN  ReplaceNullComparisonFrom(s2, << "<", ">" >>, sqlIsNotNull, 1)

applyRedshiftSchemaPrefix(sql) ==
    ensureRedshiftParameterQuoting(PrefixTablesFrom(ReplaceSchemaFrom(sql, 1), 1))

\* sql.includes('deliveries') || sql.includes('businesses') || sql.includes('TO_CHAR')
\*   || sql.includes('::numeric') || sql.includes('${schema}')
usesAnalyticsTables(sql) ==
    \/ Includes(sql, tblDeliveries)
    \/ Includes(sql, tblBusinesses)
    \/ Includes(sql, fnToChar)
    \/ Includes(sql, castNumeric)
    \/ Includes(sql, schemaPlaceholder)

(***************************************************************************)
(* State                                                                   *)
(***************************************************************************)
VARIABLES
    catalogue,      \* table validated_queries: id -> [name, sql_text, active]
    redis,          \* the ephemeral store: key -> [text, exp]
    results,        \* table validated_results: <<qid, run_stamp>> -> row
    invalidations,  \* table cache_invalidations, in insertion order
    audit_logs,     \* table audit_logs, in insertion order
    now,            \* the clock, in seconds since the start of StartDay
    ticks,          \* number of times the clock has advanced
    warehouse,      \* redshiftPool is not null
    req,            \* the requests, one per connection
    first,          \* the last execution that completed as a miss
    rin,            \* input of a pure function
    rout            \* what the pure function returned for rin

svars == << catalogue, redis, results, invalidations, audit_logs, now, ticks, warehouse,
           req, first >>
rvars == << rin, rout >>
vars == << catalogue, redis, results, invalidations, audit_logs, now, ticks, warehouse,
          req, first, rin, rout >>

(***************************************************************************)
(* The pure functions, applied to inputs drawn from bounded sets           *)
(***************************************************************************)
\* largest number of keys in a caller's filter map
MaxFilterKeys == 2
\* the day the clock starts on, in days since 1970-01-01 (2026-03-01)
StartDay == 20513
Days == {StartDay, StartDay + 1}
QueryIds == {"q1", "q2"}

Templates == {tplGuard, tplGuardMixedCase, tplPrefix, tplCast, tplDates, tplNotEqual}

FilterPairs ==
    {[k |-> kTier, v |-> v] : v \in {vSingle, vMulti, vEmpty, vBlankList, vQuote, vDollar,
                                     vNumber, vBoolean, vArray, Null}}
        \cup {[k |-> kAm, v |-> vSingle], [k |-> kAmRegion, v |-> vCairo],
              [k |-> kTen, v |-> vSingle], [k |-> kNine, v |-> vSingle],
              [k |-> kEndDate, v |-> vDate]}
        \cup {[k |-> kStartDate, v |-> v] : v \in {vDate, vEmpty, Null, vColonTier}}

\* the orders in which a caller can insert up to MaxFilterKeys distinct keys
FilterMaps ==
    UNION {{ps \in [1..n -> FilterPairs] : \A i, j \in 1..n : i # j => ps[i].k # ps[j].k}
           : n \in 0..MaxFilterKeys}

NoKey == [ns |-> "", qid |-> "", hash |-> << >>]
NoOutput == [op |-> "none", text |-> << >>, obj |-> << >>, key |-> NoKey, qid |-> "", day |-> 0]

\* the filter map a caller builds by inserting pairs in order
Filters == ObjFrom(<< >>, rin.pairs)

Render ==
    /\ rout.op = "none"
    /\ rout' = [NoOutput EXCEPT !.op = "render", !.text = replacePlaceholders(rin.sql, Filters)]
    /\ UNCHANGED << rin, svars >>

RenderForRedshift ==
    /\ rout.op = "none"
    /\ rout' = [NoOutput EXCEPT !.op = "redshift",
                                !.text = replacePlaceholdersForRedshift(rin.sql, Filters)]
    /\ UNCHANGED << rin, svars >>

CacheKey ==
    /\ rout.op = "none"
    /\ \E qid \in QueryIds :
           rout' = [NoOutput EXCEPT !.op = "key", !.qid = qid,
                                    !.key = generateCacheKey(qid, Filters)]
    /\ UNCHANGED << rin, svars >>

Normalize ==
    /\ rout.op = "none"
    /\ \E day \in Days :
           rout' = [NoOutput EXCEPT !.op = "normalize", !.day = day,
                                    !.obj = applyDefaultFilters(Filters, day)]
    /\ UNCHANGED << rin, svars >>

\* the statement as the warehouse receives it
RenderDialect ==
    /\ rout.op = "none"
    /\ rout' = [NoOutput EXCEPT !.op = "dialect",
                                !.text = applyRedshiftSchemaPrefix(
                                             replacePlaceholdersForRedshift(rin.sql, Filters))]
    /\ UNCHANGED << rin, svars >>

RenderNext == Render \/ RenderForRedshift \/ CacheKey \/ Normalize \/ RenderDialect

(***************************************************************************)
(* The service: catalogue, dimensions, backends' rows, requests            *)
(***************************************************************************)
\* number of requests the service accepts in one run, each on a connection
\* of its own
MaxRequests == 2
Procs == 1..MaxRequests
\* number of times the clock advances in one run
MaxTicks == 1
\* the time of day the service starts at, in seconds (23:59:59)
StartSecond == 86399
\* 24 * 60 * 60
SecondsPerDay == 86400
\* CACHE_TTL, in seconds
CACHE_TTL == 86400
\* FILTER_CACHE_TTL, in seconds
FILTER_CACHE_TTL == 43200
\* executeRedshiftQueryWithRetry(sql, maxRetries = 2)
maxRetries == 2
\* the clock advances by a second or by a day
ClockSteps == {1, SecondsPerDay}
\* the UTC date of an instant, in days since 1970-01-01
DayOf(t) == StartDay + (t \div SecondsPerDay)

\* t = :tier
sqlMain == << "t"," ","="," ",":","t","i","e","r" >>
\* deliveries t = :tier
sqlAnalytics == << "d","e","l","i","v","e","r","i","e","s"," ","t"," ","="," ",":","t","i","e","r" >>
\* u = :tier
sqlEdited == << "u"," ","="," ",":","t","i","e","r" >>
\* SELECT tier FROM businesses
valuesSqlTier == << "S","E","L","E","C","T"," ","t","i","e","r"," ","F","R","O","M"," ","b","u","s","i","n","e","s","s","e","s" >>
\* SELECT name FROM regions
valuesSqlRegion == << "S","E","L","E","C","T"," ","n","a","m","e"," ","F","R","O","M"," ","r","e","g","i","o","n","s" >>

\* the seeded rows of validated_queries
SeedCatalogue ==
    [id \in QueryIds |->
        IF id = "q1" THEN [name |-> "AM_VOL", sql_text |-> sqlMain, active |-> TRUE]
        ELSE [name |-> "AM_REV", sql_text |-> sqlAnalytics, active |-> TRUE]]

\* the active rows of filter_dimensions: sql_param -> values_sql (NULL for
\* the date range, which has no options)
filter_dimensions ==
    [param \in {"tier", "region", "start_date"} |->
        IF param = "tier" THEN valuesSqlTier
        ELSE IF param = "region" THEN valuesSqlRegion
        ELSE << >>]

\* the column control of the same rows
dimension_control ==
    [param \in {"tier", "region", "start_date"} |->
        IF param = "tier" THEN "select"
        ELSE IF param = "region" THEN "multiselect"
        ELSE "date_range"]

\* SELECT * FROM filter_dimensions WHERE is_active = TRUE ORDER BY label:
\* the labels are Date, Region, Tier
getFilterDimensions == << "start_date", "region", "tier" >>

\* what callers put in the path and in the body
Idents == {"q1", "AM_REV"}
\* a filter value that names an analytical table
vTable == Str(tblDeliveries)
CallerFilters == {<< >>, << [k |-> kTier, v |-> vTable] >>}
Params == {"tier", "region", "nope"}
\* the bodies of PUT /:id: a field, with its new text, name or flag
Patch(route, field, text, name, flag) ==
    [route |-> route, field |-> field, text |-> text, name |-> name, flag |-> flag]
Patches ==
    {Patch("put", "sql_text", sqlEdited, "", FALSE), Patch("put", "active", << >>, "", FALSE)}

\* a cell of a row as the drivers return it: DATE columns come back as Date objects
DateCell(day) == [t |-> "date", s |-> ISODate(day)]
rowsDated == << [k |-> "day", v |-> DateCell(StartDay)] >>
rowsCounted == << [k |-> "n", v |-> Num(<< "7" >>)] >>
RowSets == {rowsDated, rowsCounted}

\* Date.prototype.toJSON: the ISO text of the instant
DateToJSON(s) == s \o << "T","0","0",":","0","0",":","0","0",".","0","0","0","Z" >>

\* JSON.stringify(rows): a Date cell is written as a string
JSONStringify(rows) ==
    [json |-> [ i \in 1..Len(rows) |->
                  [k |-> rows[i].k,
                   v |-> IF rows[i].v.t = "date" THEN Str(DateToJSON(rows[i].v.s))
                         ELSE rows[i].v] ]]

\* JSON.parse(text)
JSONParse(text) == text.json

\* SELECT * FROM validated_queries WHERE id = ? AND active = TRUE
getValidatedQuery(cat, id) == {q \in DOMAIN cat : q = id /\ cat[q].active}

\* SELECT * FROM validated_queries WHERE name = ? AND active = TRUE
getValidatedQueryByName(cat, name) == {q \in DOMAIN cat : cat[q].name = name /\ cat[q].active}

\* the rows getValidatedQueryByIdOrName can return (results[0] of either
\* SELECT; the SELECT by name has no ORDER BY)
getValidatedQueryByIdOrName(cat, identifier) ==
    IF getValidatedQuery(cat, identifier) # {}
    THEN getValidatedQuery(cat, identifier)
    ELSE getValidatedQueryByName(cat, identifier)

\* no execution has completed as a miss yet
NoFirst ==
    [armed |-> FALSE, ident |-> "", filters |-> << >>, key |-> NoKey, data |-> << >>,
     wrote |-> FALSE, intact |-> FALSE]

\* history: the execution that stored an entry (its query id and its final
\* filters); no entry read yet
NoWriter == [qid |-> "", ff |-> << >>]

IdleReq ==
    [op |-> "idle", pc |-> "idle", ident |-> "", filters |-> << >>,
     patch |-> Patch("", "", << >>, "", FALSE),
     id |-> "", sql |-> << >>, ff |-> << >>, key |-> NoKey,
     attempt |-> 0, rows |-> << >>, sent |-> << >>, backend |-> "",
     status |-> 0, cached |-> FALSE, body |-> << >>,
     readFail |-> FALSE, whFail |-> FALSE, dbFail |-> FALSE,
     wrFail |-> FALSE, snapFail |-> FALSE,
     keys |-> {}, stale |-> {}, keep |-> {},
     prev |-> NoFirst, clean |-> TRUE, mine |-> FALSE,
     waits |-> << >>, calls |-> 0, missing |-> FALSE, role |-> "", nrows |-> 0,
     warm |-> FALSE, todo |-> << >>, hits |-> {}, fetched |-> {}, failed |-> {},
     from |-> NoWriter]

\* what the store holds when the service starts: the entry that an execution
\* of q2 without filters wrote a second before
WarmStore ==
    [k \in {generateCacheKey("q2", applyDefaultFilters(<< >>, StartDay))} |->
        [text |-> JSONStringify(rowsCounted), exp |-> StartSecond - 1 + CACHE_TTL,
         by |-> [qid |-> "q2", ff |-> applyDefaultFilters(<< >>, StartDay)]]]

ServiceInit ==
    /\ catalogue = SeedCatalogue
    /\ redis = WarmStore
    /\ results = << >>
    /\ invalidations = << >>
    /\ audit_logs = << >>
    /\ now = StartSecond
    /\ ticks = 0
    /\ warehouse \in BOOLEAN
    /\ req = [p \in Procs |-> IdleReq]
    /\ first = NoFirst

\* the pure functions on their own: the inputs are drawn, the service stands still
RenderInit ==
    /\ rin \in [sql : Templates, pairs : FilterMaps]
    /\ rout = NoOutput
    /\ catalogue = SeedCatalogue
    /\ redis = << >>
    /\ results = << >>
    /\ invalidations = << >>
    /\ audit_logs = << >>
    /\ now = StartSecond
    /\ ticks = 0
    /\ warehouse = FALSE
    /\ req = [p \in Procs |-> IdleReq]
    /\ first = NoFirst

RenderSpec == RenderInit /\ [][RenderNext]_vars

(***************************************************************************)
(* Properties of the pure functions (checked under RenderSpec)             *)
(***************************************************************************)
\* the value counts as not given: absent, null or empty
NoValue(v) == v.t \in {"undefined", "null"} \/ v = Str(<< >>)
\* a comma-joined string with nothing left after splitting and trimming
BlankList(v) == v.t = "string" /\ "," \in Range(v.s) /\ MultiValues(v.s) = << >>
\* a comma-joined string with at least one element
MultiValue(v) == v.t = "string" /\ "," \in Range(v.s) /\ MultiValues(v.s) # << >>
\* a non-empty string without a comma
SingleString(v) == v.t = "string" /\ v.s # << >> /\ "," \notin Range(v.s)

\* the SQL literal the specification gives a value that is not a list
Literal(v) ==
    CASE NoValue(v) \/ BlankList(v) -> sqlNULL
      [] v.t = "number" -> v.s
      [] OTHER -> Quoted(v.s)

\* the names of the placeholder tokens of a template: a colon that is not
\* part of a cast, followed by a whole identifier
Tokens(sql) == Range(Placeholders(sql, TRUE))

\* the template with every placeholder token replaced by its literal
RECURSIVE ExpectedFrom(_, _, _)
ExpectedFrom(s, filters, i) ==
    IF i > Len(s) THEN << >>
    ELSE IF /\ s[i] = ":"
            /\ i < Len(s)
            /\ s[i + 1] \in IdStart
            /\ (i = 1 \/ s[i - 1] # ":")
    THEN LET e == RunEnd(s, i + 2, IdChar)
         IN  Literal(Get(filters, Sub(s, i + 1, e - 1))) \o ExpectedFrom(s, filters, e)
    ELSE << s[i] >> \o ExpectedFrom(s, filters, i + 1)

RECURSIVE SubstituteText(_, _, _, _)
SubstituteText(s, pat, repl, i) ==
    IF i > Len(s) THEN << >>
    ELSE IF StartsAt(s, i, pat) THEN repl \o SubstituteText(s, pat, repl, i + Len(pat))
    ELSE << s[i] >> \o SubstituteText(s, pat, repl, i + 1)

\* the insertion orders of the same key/value pairs
Reorderings(pairs) ==
    {[ i \in 1..Len(pairs) |-> pairs[pi[i]] ] : pi \in Permutations(1..Len(pairs))}

\* (:tier IS NULL OR m.tier = :tier)
guardTier == << "(",":","t","i","e","r"," ","I","S"," ","N","U","L","L"," ","O","R"," ","m",".","t","i","e","r"," ","="," ",":","t","i","e","r",")" >>
\* m.tier IN (
inTier == << "m",".","t","i","e","r"," ","I","N"," ","(" >>
colonTier == << ":" >> \o kTier

\* C3: for every query id, generateCacheKey returns the same key for every
\* insertion order of the same key/value pairs.
C3_KeyOrderIndependent ==
    rout.op = "key" =>
        \A pairs \in Reorderings(rin.pairs) :
            generateCacheKey(rout.qid, ObjFrom(<< >>, pairs)) = rout.key

\* C3 witness: a key was computed for a map of two or more keys that were
\* not inserted in sorted order.
C3_Witness ==
    /\ rout.op = "key"
    /\ Len(rin.pairs) >= 2
    /\ Keys(Filters) # Sort(Keys(Filters))
    /\ Len(rout.key.hash) >= 2

\* C7: with the guard (:tier IS NULL OR m.tier = :tier) in the template and
\* tier bound to a comma-joined list, the rendered SQL holds
\* m.tier IN ('v1', 'v2', ...) in place of the whole guard and no literal
\* :tier is left, in both dialects.
C7_MultiSelectRewrite ==
    (/\ rout.op \in {"render", "redshift"}
     /\ Includes(rin.sql, guardTier)
     /\ MultiValue(Get(Filters, kTier)))
        => /\ rout.text = SubstituteText(rin.sql, guardTier,
                              inTier \o QuotedValues(MultiValues(Get(Filters, kTier).s)) \o << ")" >>, 1)
           /\ ~ Includes(rout.text, colonTier)

\* C8: when every placeholder of the template has a value that is absent,
\* null, empty or an empty list, replacePlaceholders returns the template
\* with every placeholder token replaced by NULL.
C8_NullSafety ==
    (/\ rout.op = "render"
     /\ Tokens(rin.sql) # {}
     /\ \A name \in Tokens(rin.sql) :
            NoValue(Get(Filters, name)) \/ BlankList(Get(Filters, name)))
        => rout.text = ExpectedFrom(rin.sql, Filters, 1)

\* C9: in a template without casts whose placeholders all have one name,
\* bound to a non-empty single value, a string is written as a quoted literal
\* with its quotes doubled and a number as a raw literal; a value of any
\* other type is not written raw.  Both dialects.
C9_ScalarQuoting ==
    (/\ rout.op \in {"render", "redshift"}
     /\ Cardinality(Tokens(rin.sql)) = 1
     /\ ~ Includes(rin.sql, << ":", ":" >>)
     /\ \A name \in Tokens(rin.sql) :
            LET v == Get(Filters, name)
            IN  SingleString(v) \/ v.t \in {"number", "boolean", "array"})
        => IF \A name \in Tokens(rin.sql) : Get(Filters, name).t \in {"string", "number"}
           THEN rout.text = ExpectedFrom(rin.sql, Filters, 1)
           ELSE \A name \in Tokens(rin.sql) :
                    Get(Filters, name).t \in {"boolean", "array"}
                        => ~ Includes(rout.text, << "=", " " >> \o Get(Filters, name).s)

\* C10: applyDefaultFilters binds start_date and end_date to a date: when the
\* caller gives no value they are today minus 30 days and today as
\* YYYY-MM-DD, and every other key of the caller is carried over unchanged.
C10_DefaultFilling ==
    rout.op = "normalize" =>
        /\ NoValue(Get(Filters, kStartDate))
               => Get(rout.obj, kStartDate) = Str(ISODate(rout.day - DefaultWindowDays))
        /\ NoValue(Get(Filters, kEndDate))
               => Get(rout.obj, kEndDate) = Str(ISODate(rout.day))
        /\ Len(Get(rout.obj, kStartDate).s) = 10
        /\ Len(Get(rout.obj, kEndDate).s) = 10
        /\ \A i \in 1..Len(Filters) :
               Filters[i].k \notin {kStartDate, kEndDate}
                   => Get(rout.obj, Filters[i].k) = Filters[i].v
        /\ Range(Keys(rout.obj)) = Range(Keys(Filters)) \cup {kStartDate, kEndDate}

(***************************************************************************)
(* The service: stores                                                     *)
(***************************************************************************)
\* DEL of the keys K
Drop(store, K) == [k \in DOMAIN store \ K |-> store[k]]

SetEx_noop(store, key, ttl, text, t) == store

\* SETEX key ttl text, at time t
SetEx(store, key, ttl, text, t) ==
    [k \in DOMAIN store \cup {key} |->
        IF k = key THEN [text |-> text, exp |-> t + ttl] ELSE store[k]]

\* history: the entry under key was stored by the execution of qid with the
\* final filters ff
Stamp(store, key, qid, ff) ==
    [k \in DOMAIN store |->
        IF k = key THEN [text |-> store[k].text, exp |-> store[k].exp,
                         by |-> [qid |-> qid, ff |-> ff]]
        ELSE store[k]]

\* the keys whose time to live is over at time t
Expired(store, t) == {k \in DOMAIN store : store[k].exp <= t}

KeysMatching_all(store, qid) == {k \in DOMAIN store : k.ns = "validated_query"}

\* KEYS validated_query:${qid}:*
KeysMatching(store, qid) == {k \in DOMAIN store : k.ns = "validated_query" /\ k.qid = qid}

\* INSERT INTO validated_results ... ON DUPLICATE KEY UPDATE result_json = VALUES(result_json)
Upsert(table, qid, run_stamp, filter_json, result_json) ==
    [pk \in DOMAIN table \cup {<< qid, run_stamp >>} |->
        IF pk # << qid, run_stamp >> THEN table[pk]
        ELSE IF pk \in DOMAIN table THEN [table[pk] EXCEPT !.result_json = result_json]
        ELSE [filter_json |-> filter_json, result_json |-> result_json]]

onRedshiftError_rethrow == "raise"

onRedshiftError_cache == "set"

\* catch (redshiftError): the relational fallback runs
onRedshiftError == "fallback"

onRelationalError_retry == "retry"

\* deliveriesDb.execute / dbConnection.execute is awaited outside any
\* try: its error is thrown to the route
onRelationalError == "raise"

onCacheWriteError_rethrow == "raise"

\* catch (redisError) {}: the snapshot is written next
onCacheWriteError == "snapshot"

backendOf_warehouse(sql) == "warehouse"

backendOf_coalesced(sql) == "set"

\* the backend a template is sent to
backendOf(sql) ==
    IF usesAnalyticsTables(sql)
    THEN IF warehouse THEN "warehouse" ELSE "deliveries"
    ELSE "main"

(***************************************************************************)
(* History kept for the properties.  A request remembers whether the entry *)
(* it wrote is still the one in the store (mine); an update remembers the  *)
(* entries of its query that were cached when it began and are still the   *)
(* same (stale) and those of other queries that nobody else removed (keep).*)
(***************************************************************************)
\* the entries of K left the store or were rewritten
Forget(R, K) ==
    [p \in Procs |->
        [R[p] EXCEPT !.mine = @ /\ R[p].key \notin K,
                     !.stale = @ \ K,
                     !.prev.intact = IF R[p].pc \in {"route", "lookup", "get"}
                                     THEN @ /\ R[p].prev.key \notin K
                                     ELSE @]]

\* the entries of K left the store, removed by someone other than request u
Unkeep(R, K, u) ==
    [p \in Procs |-> IF p = u THEN R[p] ELSE [R[p] EXCEPT !.keep = @ \ K]]

\* the catalogue changed: no execution in flight is a clean first call or
\* the second call of a pair any more
Unfollow(R) == [p \in Procs |-> [R[p] EXCEPT !.prev = NoFirst, !.clean = FALSE]]

\* res.status(status).json(...)
Reply(r, status, cached, body) ==
    [r EXCEPT !.pc = "done", !.status = status, !.cached = cached, !.body = body]

\* connection p takes its request; connections are numbered in the order in
\* which their requests arrive
Idle(p) == req[p].op = "idle" /\ (IF p = 1 THEN TRUE ELSE req[p - 1].op # "idle")

At(p, op, pc) == req[p].op = op /\ req[p].pc = pc

(***************************************************************************)
(* POST /:id/execute  and  executeValidatedQuery                           *)
(***************************************************************************)
StartExecute(p) ==
    /\ Idle(p)
    /\ \E ident \in Idents, filters \in CallerFilters :
           req' = [req EXCEPT ![p] =
                      [IdleReq EXCEPT !.op = "exec", !.pc = "route", !.ident = ident,
                                      !.filters = filters,
                                      !.prev = IF /\ first.armed
                                                  /\ first.ident = ident
                                                  /\ first.filters = filters
                                               THEN first ELSE NoFirst]]
    /\ UNCHANGED << catalogue, redis, results, invalidations, audit_logs, now, ticks,
                    warehouse, first, rvars >>

\* the route looks the query up and answers 404 when there is none
ExecuteRoute(p) ==
    /\ At(p, "exec", "route")
    /\ req' = [req EXCEPT ![p] =
                  IF getValidatedQueryByIdOrName(catalogue, @.ident) = {}
                  THEN Reply([@ EXCEPT !.missing = TRUE], 404, FALSE, << >>)
                  ELSE [@ EXCEPT !.pc = "lookup"]]
    /\ UNCHANGED << catalogue, redis, results, invalidations, audit_logs, now, ticks,
                    warehouse, first, rvars >>

\* the service looks the query up again, normalizes the filters and builds the key
ExecuteLookup(p) ==
    LET r == req[p]
        found == getValidatedQueryByIdOrName(catalogue, r.ident)
    IN  /\ At(p, "exec", "lookup")
        /\ IF found = {}
           THEN req' = [req EXCEPT ![p] = Reply([r EXCEPT !.missing = TRUE], 500, FALSE, << >>)]
           ELSE \E q \in found :
                    LET finalFilters == applyDefaultFilters(r.filters, DayOf(now))
                    IN  req' = [req EXCEPT ![p] =
                                   [r EXCEPT !.pc = "get", !.id = q,
                                             !.sql = catalogue[q].sql_text,
                                             !.ff = finalFilters,
                                             !.key = generateCacheKey(q, finalFilters)]]
        /\ UNCHANGED << catalogue, redis, results, invalidations, audit_logs, now, ticks,
                        warehouse, first, rvars >>

\* redis.get(cacheKey): an error is thrown to the route, a hit is answered,
\* a miss goes on to the backend
ExecuteCacheGet(p) ==
    LET r == req[p]
    IN  /\ At(p, "exec", "get")
        /\ \E ok \in BOOLEAN :
               req' = [req EXCEPT ![p] =
                          IF ~ ok THEN Reply([r EXCEPT !.readFail = TRUE], 500, FALSE, << >>)
                          ELSE IF r.key \in DOMAIN redis
                          THEN Reply([r EXCEPT !.from = redis[r.key].by],
                                     200, TRUE, JSONParse(redis[r.key].text))
                          ELSE [r EXCEPT !.pc = backendOf(r.sql)]]
        /\ UNCHANGED << catalogue, redis, results, invalidations, audit_logs, now, ticks,
                        warehouse, first, rvars >>

\* const waitTime = Math.pow(2, attempt) * 1000
waitTime(attempt) == (2 ^ attempt) * 1000

\* one attempt of executeRedshiftQueryWithRetry, with the wait that follows a
\* failed attempt that is not the last
ExecuteWarehouse(p) ==
    LET r == req[p]
    IN  /\ At(p, "exec", "warehouse")
        /\ \/ \E rows \in RowSets :
                  req' = [req EXCEPT ![p] =
                             [r EXCEPT !.attempt = @ + 1, !.rows = rows, !.backend = "warehouse",
                                       !.sent = applyRedshiftSchemaPrefix(
                                                    replacePlaceholdersForRedshift(r.sql, r.ff)),
                                       !.pc = "set"]]
           \/ req' = [req EXCEPT ![p] =
                         IF r.attempt + 1 < maxRetries
                         THEN [r EXCEPT !.attempt = @ + 1,
                                        !.waits = Append(@, waitTime(r.attempt + 1))]
                         ELSE IF onRedshiftError = "raise"
                         THEN Reply([r EXCEPT !.attempt = @ + 1, !.whFail = TRUE], 500, FALSE, << >>)
                         ELSE [r EXCEPT !.attempt = @ + 1, !.whFail = TRUE, !.pc = onRedshiftError]]
        /\ UNCHANGED << catalogue, redis, results, invalidations, audit_logs, now, ticks,
                        warehouse, first, rvars >>

\* deliveriesDb.execute(sql) or dbConnection.execute(sql): rows, or an error
\* thrown to the route
Relational(p, backend) ==
    \E r \in {[req[p] EXCEPT !.backend = backend, !.calls = @ + 1,
                              !.sent = replacePlaceholders(req[p].sql, req[p].ff)]} :
        \/ \E rows \in RowSets :
               req' = [req EXCEPT ![p] = [r EXCEPT !.rows = rows, !.pc = "set"]]
        \/ req' = [req EXCEPT ![p] =
                      IF onRelationalError = "retry" /\ r.calls < maxRetries
                      THEN r
                      ELSE Reply([r EXCEPT !.dbFail = TRUE], 500, FALSE, << >>)]

ExecuteFallback(p) ==
    /\ At(p, "exec", "fallback")
    /\ Relational(p, "deliveries")
    /\ UNCHANGED << catalogue, redis, results, invalidations, audit_logs, now, ticks,
                    warehouse, first, rvars >>

ExecuteDeliveries(p) ==
    /\ At(p, "exec", "deliveries")
    /\ Relational(p, "deliveries")
    /\ UNCHANGED << catalogue, redis, results, invalidations, audit_logs, now, ticks,
                    warehouse, first, rvars >>

ExecuteMain(p) ==
    /\ At(p, "exec", "main")
    /\ Relational(p, "main")
    /\ UNCHANGED << catalogue, redis, results, invalidations, audit_logs, now, ticks,
                    warehouse, first, rvars >>

\* cacheResults, first half: redis.setEx(cacheKey, CACHE_TTL, JSON.stringify(results))
ExecuteCacheSet(p) ==
    LET r == req[p]
        cacheKey == generateCacheKey(r.id, r.ff)
    IN  /\ At(p, "exec", "set")
        /\ \/ /\ redis' = Stamp(SetEx(redis, cacheKey, CACHE_TTL, JSONStringify(r.rows), now),
                              cacheKey, r.id, r.ff)
              /\ req' = [Forget(req, {cacheKey}) EXCEPT ![p] =
                            [r EXCEPT !.mine = TRUE, !.pc = "snapshot"]]
              /\ first' = [first EXCEPT !.intact = @ /\ first.key # cacheKey]
           \/ /\ req' = [req EXCEPT ![p] =
                            IF onCacheWriteError = "raise"
                            THEN Reply([r EXCEPT !.wrFail = TRUE], 500, FALSE, << >>)
                            ELSE [r EXCEPT !.wrFail = TRUE, !.pc = onCacheWriteError]]
              /\ UNCHANGED << redis, first >>
        /\ UNCHANGED << catalogue, results, invalidations, audit_logs, now, ticks,
                        warehouse, rvars >>

\* cacheResults, second half: the snapshot row; then the result is returned
\* and the route answers
ExecuteSnapshot(p) ==
    LET r == req[p]
    IN  /\ At(p, "exec", "snapshot")
        /\ \E ok \in BOOLEAN :
               /\ results' = IF ok
                             THEN Upsert(results, r.id, now, JSONStringifyObject(r.ff),
                                         JSONStringify(r.rows))
                             ELSE results
               /\ req' = [req EXCEPT ![p] = Reply([r EXCEPT !.snapFail = ~ ok], 200, FALSE, r.rows)]
        /\ first' = IF r.clean
                    THEN [armed |-> TRUE, ident |-> r.ident, filters |-> r.filters,
                          key |-> r.key, data |-> r.rows, wrote |-> ~ r.wrFail,
                          intact |-> r.mine]
                    ELSE first
        /\ UNCHANGED << catalogue, redis, invalidations, audit_logs, now, ticks,
                        warehouse, rvars >>

(***************************************************************************)
(* PUT /:id  and  updateValidatedQuery, invalidateQueryCache               *)
(***************************************************************************)
StartUpdate(p) ==
    /\ Idle(p)
    /\ \E ident \in Idents, patch \in Patches :
           req' = [req EXCEPT ![p] =
                      [IdleReq EXCEPT !.op = "update", !.pc = "route", !.ident = ident,
                                      !.patch = patch]]
    /\ UNCHANGED << catalogue, redis, results, invalidations, audit_logs, now, ticks,
                    warehouse, first, rvars >>

\* the route resolves the identifier and answers 404 when there is no such query
UpdateRoute(p) ==
    LET r == req[p]
        found == getValidatedQueryByIdOrName(catalogue, r.ident)
    IN  /\ At(p, "update", "route")
        /\ IF found = {}
           THEN req' = [req EXCEPT ![p] = Reply(r, 404, FALSE, << >>)]
           ELSE \E q \in found : req' = [req EXCEPT ![p] = [r EXCEPT !.id = q, !.pc = "update"]]
        /\ UNCHANGED << catalogue, redis, results, invalidations, audit_logs, now, ticks,
                        warehouse, first, rvars >>

\* SET ${key} = ? for the key of the body
ApplyPatch(row, patch) ==
    IF patch.field = "sql_text" THEN [row EXCEPT !.sql_text = patch.text]
    ELSE IF patch.field = "name" THEN [row EXCEPT !.name = patch.name]
    ELSE [row EXCEPT !.active = patch.flag]

\* UPDATE validated_queries SET ... WHERE id = ?
UpdateCatalogue(p) ==
    LET r == req[p]
    IN  /\ At(p, "update", "update")
        /\ \/ /\ catalogue' = [catalogue EXCEPT ![r.id] = ApplyPatch(@, r.patch)]
              /\ req' = [Unfollow(req) EXCEPT ![p] =
                            [r EXCEPT !.pc = "keys",
                                      !.stale = {k \in DOMAIN redis :
                                                    k.ns = "validated_query" /\ k.qid = r.id},
                                      !.keep = {k \in DOMAIN redis :
                                                   k.ns = "validated_query" /\ k.qid # r.id}]]
              /\ first' = NoFirst
           \/ /\ req' = [req EXCEPT ![p] = Reply([r EXCEPT !.dbFail = TRUE], 500, FALSE, << >>)]
              /\ UNCHANGED << catalogue, first >>
        /\ UNCHANGED << redis, results, invalidations, audit_logs, now, ticks,
                        warehouse, rvars >>

\* redis.keys(pattern)
UpdateKeys(p) ==
    LET r == req[p]
        keys == KeysMatching(redis, r.id)
    IN  /\ At(p, "update", "keys")
        /\ \/ req' = [req EXCEPT ![p] =
                         [r EXCEPT !.keys = keys, !.pc = IF keys # {} THEN "del" ELSE "log"]]
           \/ req' = [req EXCEPT ![p] = Reply([r EXCEPT !.readFail = TRUE], 500, FALSE, << >>)]
        /\ UNCHANGED << catalogue, redis, results, invalidations, audit_logs, now, ticks,
                        warehouse, first, rvars >>

\* redis.del(keys)
UpdateDel(p) ==
    LET r == req[p]
    IN  /\ At(p, "update", "del")
        /\ \/ /\ redis' = Drop(redis, r.keys)
              /\ req' = [Unkeep(Forget(req, r.keys), r.keys, p) EXCEPT ![p] =
                            [r EXCEPT !.stale = @ \ r.keys, !.pc = "log"]]
              /\ first' = [first EXCEPT !.intact = @ /\ first.key \notin r.keys]
           \/ /\ req' = [req EXCEPT ![p] = Reply([r EXCEPT !.wrFail = TRUE], 500, FALSE, << >>)]
              /\ UNCHANGED << redis, first >>
        /\ UNCHANGED << catalogue, results, invalidations, audit_logs, now, ticks,
                        warehouse, rvars >>

\* INSERT INTO cache_invalidations: the last statement of updateValidatedQuery
UpdateLog(p) ==
    LET r == req[p]
    IN  /\ At(p, "update", "log")
        /\ \/ /\ invalidations' =
                     Append(invalidations,
                            [qid |-> r.id, filter_hash |-> md5Hex(<< "*" >>),
                             reason |-> "Query updated"])
              /\ req' = [req EXCEPT ![p] = [r EXCEPT !.pc = "audit"]]
           \/ /\ req' = [req EXCEPT ![p] = Reply([r EXCEPT !.snapFail = TRUE], 500, FALSE, << >>)]
              /\ UNCHANGED invalidations
        /\ UNCHANGED << catalogue, redis, results, audit_logs, now, ticks,
                        warehouse, first, rvars >>

\* the route writes the audit row and answers: PUT reads the query back and
\* answers with it, DELETE answers with a message
UpdateAudit(p) ==
    LET r == req[p]
    IN  /\ At(p, "update", "audit")
        /\ audit_logs' = Append(audit_logs,
                                [action |-> IF r.patch.route = "delete"
                                            THEN "deactivate_validated_query"
                                            ELSE "update_validated_query",
                                 resource_id |-> r.id])
        /\ req' = [req EXCEPT ![p] =
                      Reply(r, 200, FALSE,
                            IF r.patch.route = "delete" THEN << >>
                            ELSE [ i \in 1..Cardinality(getValidatedQuery(catalogue, r.id)) |->
                                     catalogue[r.id] ])]
        /\ UNCHANGED << catalogue, redis, results, invalidations, now, ticks,
                        warehouse, first, rvars >>

(***************************************************************************)
(* GET /meta/filters/:param/options  and  getFilterOptions                 *)
(***************************************************************************)
StartOptions(p) ==
    /\ Idle(p)
    /\ \E param \in Params :
           req' = [req EXCEPT ![p] =
                      [IdleReq EXCEPT !.op = "options", !.pc = "get", !.ident = param,
                                      !.key = generateFilterCacheKey(param)]]
    /\ UNCHANGED << catalogue, redis, results, invalidations, audit_logs, now, ticks,
                    warehouse, first, rvars >>

\* redis.get(filterCacheKey)
OptionsCacheGet(p) ==
    LET r == req[p]
    IN  /\ At(p, "options", "get")
        /\ \E ok \in BOOLEAN :
               req' = [req EXCEPT ![p] =
                          IF ~ ok THEN Reply([r EXCEPT !.readFail = TRUE], 500, FALSE, << >>)
                          ELSE IF r.key \in DOMAIN redis
                          THEN Reply(r, 200, TRUE, JSONParse(redis[r.key].text))
                          ELSE [r EXCEPT !.pc = "dimension"]]
        /\ UNCHANGED << catalogue, redis, results, invalidations, audit_logs, now, ticks,
                        warehouse, first, rvars >>

\* SELECT values_sql FROM filter_dimensions ...: no row answers the empty list
OptionsDimension(p) ==
    LET r == req[p]
    IN  /\ At(p, "options", "dimension")
        /\ req' = [req EXCEPT ![p] =
                      IF r.ident \notin DOMAIN filter_dimensions
                      THEN Reply(r, 200, FALSE, << >>)
                      ELSE IF filter_dimensions[r.ident] = << >>
                      THEN Reply(r, 200, FALSE, << >>)
                      ELSE [r EXCEPT !.sql = filter_dimensions[r.ident],
                                     !.pc = backendOf(filter_dimensions[r.ident])]]
        /\ UNCHANGED << catalogue, redis, results, invalidations, audit_logs, now, ticks,
                        warehouse, first, rvars >>

\* one attempt of executeRedshiftQueryWithRetry(applyRedshiftSchemaPrefix(valuesSql))
OptionsWarehouse(p) ==
    LET r == req[p]
    IN  /\ At(p, "options", "warehouse")
        /\ \/ \E rows \in RowSets :
                  req' = [req EXCEPT ![p] =
                             [r EXCEPT !.attempt = @ + 1, !.rows = rows, !.backend = "warehouse",
                                       !.sent = applyRedshiftSchemaPrefix(r.sql), !.pc = "set"]]
           \/ req' = [req EXCEPT ![p] =
                         IF r.attempt + 1 < maxRetries
                         THEN [r EXCEPT !.attempt = @ + 1,
                                        !.waits = Append(@, waitTime(r.attempt + 1))]
                         ELSE [r EXCEPT !.attempt = @ + 1, !.whFail = TRUE, !.pc = "fallback"]]
        /\ UNCHANGED << catalogue, redis, results, invalidations, audit_logs, now, ticks,
                        warehouse, first, rvars >>

\* deliveriesDb.execute(valuesSql) or dbConnection.execute(valuesSql)
OptionsRelational(p, backend) ==
    \E r \in {[req[p] EXCEPT !.backend = backend, !.calls = @ + 1, !.sent = req[p].sql]} :
        \/ \E rows \in RowSets :
               req' = [req EXCEPT ![p] = [r EXCEPT !.rows = rows, !.pc = "set"]]
        \/ req' = [req EXCEPT ![p] =
                      IF onRelationalError = "retry" /\ r.calls < maxRetries
                      THEN r
                      ELSE Reply([r EXCEPT !.dbFail = TRUE], 500, FALSE, << >>)]

OptionsFallback(p) ==
    /\ At(p, "options", "fallback")
    /\ OptionsRelational(p, "deliveries")
    /\ UNCHANGED << catalogue, redis, results, invalidations, audit_logs, now, ticks,
                    warehouse, first, rvars >>

OptionsDeliveries(p) ==
    /\ At(p, "options", "deliveries")
    /\ OptionsRelational(p, "deliveries")
    /\ UNCHANGED << catalogue, redis, results, invalidations, audit_logs, now, ticks,
                    warehouse, first, rvars >>

OptionsMain(p) ==
    /\ At(p, "options", "main")
    /\ OptionsRelational(p, "main")
    /\ UNCHANGED << catalogue, redis, results, invalidations, audit_logs, now, ticks,
                    warehouse, first, rvars >>

\* cacheFilterOptions; then the options are returned and the route answers
OptionsCacheSet(p) ==
    LET r == req[p]
        filterCacheKey == generateFilterCacheKey(r.ident)
    IN  /\ At(p, "options", "set")
        /\ \/ /\ redis' = SetEx(redis, filterCacheKey, FILTER_CACHE_TTL, JSONStringify(r.rows), now)
              /\ req' = [Forget(req, {filterCacheKey}) EXCEPT ![p] =
                            Reply([r EXCEPT !.mine = TRUE], 200, FALSE, r.rows)]
           \/ /\ req' = [req EXCEPT ![p] =
                            IF onCacheWriteError = "raise"
                            THEN Reply([r EXCEPT !.wrFail = TRUE], 500, FALSE, << >>)
                            ELSE Reply([r EXCEPT !.wrFail = TRUE], 200, FALSE, r.rows)]
              /\ UNCHANGED redis
        /\ UNCHANGED << catalogue, results, invalidations, audit_logs, now, ticks,
                        warehouse, first, rvars >>

(***************************************************************************)
(* DELETE /meta/filters/cache/:param?  and  invalidateFilterCache          *)
(***************************************************************************)
\* the optional path parameter: a parameter name, or none
PurgeParams == {"tier", ""}

\* with a parameter the one key is deleted, without one the keys are scanned
StartPurge(p) ==
    /\ Idle(p)
    /\ \E param \in PurgeParams :
           req' = [req EXCEPT ![p] =
                      IF param # ""
                      THEN [IdleReq EXCEPT !.op = "purge", !.pc = "del", !.ident = param,
                                           !.keys = {generateFilterCacheKey(param)}]
                      ELSE [IdleReq EXCEPT !.op = "purge", !.pc = "keys"]]
    /\ UNCHANGED << catalogue, redis, results, invalidations, audit_logs, now, ticks,
                    warehouse, first, rvars >>

\* redis.keys('filter_options:*')
PurgeKeys(p) ==
    LET r == req[p]
        keys == {k \in DOMAIN redis : k.ns = "filter_options"}
    IN  /\ At(p, "purge", "keys")
        /\ \/ req' = [req EXCEPT ![p] =
                         IF keys # {} THEN [r EXCEPT !.keys = keys, !.pc = "del"]
                         ELSE Reply(r, 200, FALSE, << >>)]
           \/ req' = [req EXCEPT ![p] = Reply([r EXCEPT !.readFail = TRUE], 500, FALSE, << >>)]
        /\ UNCHANGED << catalogue, redis, results, invalidations, audit_logs, now, ticks,
                        warehouse, first, rvars >>

\* redis.del(filterCacheKey) or redis.del(keys); then the route answers
PurgeDel(p) ==
    LET r == req[p]
    IN  /\ At(p, "purge", "del")
        /\ \/ /\ redis' = Drop(redis, r.keys)
              /\ req' = [Unkeep(Forget(req, r.keys), r.keys, p) EXCEPT ![p] =
                            Reply(r, 200, FALSE, << >>)]
           \/ /\ req' = [req EXCEPT ![p] = Reply([r EXCEPT !.wrFail = TRUE], 500, FALSE, << >>)]
              /\ UNCHANGED redis
        /\ UNCHANGED << catalogue, results, invalidations, audit_logs, now, ticks,
                        warehouse, first, rvars >>

(***************************************************************************)
(* The environment: time passes                                            *)
(***************************************************************************)
\* the clock advances; the entries whose time to live is over leave the store
Tick ==
    /\ ticks < MaxTicks
    /\ \E step \in ClockSteps :
           LET gone == Expired(redis, now + step)
           IN  /\ now' = now + step
               /\ redis' = Drop(redis, gone)
               /\ req' = Unkeep(Forget(req, gone), gone, 0)
               /\ first' = [first EXCEPT !.intact = @ /\ first.key \notin gone]
    /\ ticks' = ticks + 1
    /\ UNCHANGED << catalogue, results, invalidations, audit_logs, warehouse, rvars >>

Next ==
    \/ \E p \in Procs :
           \/ StartExecute(p) \/ ExecuteRoute(p) \/ ExecuteLookup(p) \/ ExecuteCacheGet(p)
           \/ ExecuteWarehouse(p) \/ ExecuteFallback(p) \/ ExecuteDeliveries(p)
           \/ ExecuteMain(p) \/ ExecuteCacheSet(p) \/ ExecuteSnapshot(p)
           \/ StartUpdate(p) \/ UpdateRoute(p) \/ UpdateCatalogue(p) \/ UpdateKeys(p)
           \/ UpdateDel(p) \/ UpdateLog(p) \/ UpdateAudit(p)
           \/ StartOptions(p) \/ OptionsCacheGet(p) \/ OptionsDimension(p)
           \/ OptionsWarehouse(p) \/ OptionsFallback(p) \/ OptionsDeliveries(p)
           \/ OptionsMain(p) \/ OptionsCacheSet(p)
           \/ StartPurge(p) \/ PurgeKeys(p) \/ PurgeDel(p)
    \/ Tick

Init ==
    /\ ServiceInit
    /\ rin = [sql |-> tplGuard, pairs |-> << >>]
    /\ rout = NoOutput

Spec == Init /\ [][Next]_vars

(***************************************************************************)
(* Properties of the service (checked under Spec)                          *)
(***************************************************************************)
\* the rows as a caller reads them back from the store: a Date cell has
\* become the ISO text of its instant, every other cell is the same
ReadBack(rows) ==
    [ i \in 1..Len(rows) |->
        IF rows[i].v.t = "date"
        THEN [k |-> rows[i].k, v |-> Str(DateToJSON(rows[i].v.s))]
        ELSE rows[i] ]

\* request p is an execution that follows, with the same identifier and
\* filters and no catalogue update since, an execution that found no entry
\* and returned rows with cached=false
Second(p) == At(p, "exec", "done") /\ req[p].prev.armed

\* C1 (as stated): the second of two executions with identical filters
\* returns cached=true and exactly the rows the first call returned.
C1_CacheRoundTrip ==
    \A p \in Procs :
        Second(p) => /\ req[p].status = 200
                     /\ req[p].cached
                     /\ req[p].body = req[p].prev.data

\* C1 restricted to runs without store failures: when the first call's
\* write to the store succeeded, its entry is still in the store untouched
\* at the second call's read, the second call normalizes to the same key
\* and its read succeeds, the second call returns cached=true and exactly
\* the rows the first call returned.
C1_CacheRoundTripNoFault ==
    \A p \in Procs :
        (/\ Second(p)
         /\ req[p].prev.wrote
         /\ req[p].prev.intact
         /\ req[p].key = req[p].prev.key
         /\ ~ req[p].readFail)
            => /\ req[p].status = 200
               /\ req[p].cached
               /\ req[p].body = req[p].prev.data

\* What the code does guarantee for C1: under the same conditions the
\* second call returns cached=true and the first call's rows as they read
\* back from the store (a Date cell as the ISO text of its instant).
C1_CacheRoundTripIntact ==
    \A p \in Procs :
        (/\ Second(p)
         /\ req[p].prev.wrote
         /\ req[p].prev.intact
         /\ req[p].key = req[p].prev.key
         /\ ~ req[p].readFail)
            => /\ req[p].status = 200
               /\ req[p].cached
               /\ req[p].body = ReadBack(req[p].prev.data)

\* C1 witness: a second call was answered from the entry the first call
\* wrote, and the rows hold a date.
C1_Witness ==
    \E p \in Procs :
        /\ Second(p)
        /\ req[p].prev.wrote
        /\ req[p].prev.intact
        /\ req[p].key = req[p].prev.key
        /\ req[p].cached
        /\ req[p].prev.data = rowsDated

\* updateValidatedQuery has returned to the route
Updated(p) ==
    /\ req[p].op = "update"
    /\ req[p].pc = "audit" \/ (req[p].pc = "done" /\ req[p].status = 200)

C4_WarehouseFallback ==
    \A p \in Procs :
        (At(p, "exec", "done") /\ req[p].whFail /\ ~ req[p].dbFail)
            => /\ req[p].status = 200
               /\ ~ req[p].cached
               /\ req[p].backend = "deliveries"
               /\ req[p].sent = replacePlaceholders(req[p].sql, req[p].ff)
               /\ req[p].body = req[p].rows

\* C4 witness: an execution was answered by the fallback after maxRetries
\* failed warehouse attempts.
C4_Witness ==
    \E p \in Procs :
        /\ At(p, "exec", "done")
        /\ req[p].whFail
        /\ req[p].attempt = maxRetries
        /\ req[p].status = 200
        /\ req[p].backend = "deliveries"

\* C5: a request whose read of the ephemeral store failed goes on to the
\* backend and, unless the backend fails, is answered 200 with the rows the
\* backend returned.
C5_ReadFailureIsMiss ==
    \A p \in Procs :
        (/\ req[p].op \in {"exec", "options"}
         /\ req[p].pc = "done"
         /\ req[p].readFail
         /\ ~ req[p].dbFail)
            => /\ req[p].status = 200
               /\ req[p].backend # ""
               /\ req[p].body = req[p].rows

\* C6: a request that missed, got rows from a backend and then failed to
\* write the store or the snapshot is answered 200 with those rows and
\* cached=false.
C6_WriteFailureNotFatal ==
    \A p \in Procs :
        (/\ req[p].op \in {"exec", "options"}
         /\ req[p].pc = "done"
         /\ req[p].wrFail \/ req[p].snapFail)
            => /\ req[p].status = 200
               /\ ~ req[p].cached
               /\ req[p].backend # ""
               /\ req[p].body = req[p].rows

\* C6 witness: an execution was answered with its rows although both the
\* write to the store and the snapshot insert failed, and a filter-options
\* request was answered although its write to the store failed.
C6_Witness ==
    /\ \E p \in Procs :
           /\ At(p, "exec", "done")
           /\ req[p].wrFail
           /\ req[p].snapFail
           /\ req[p].status = 200
    /\ \E p \in Procs :
           /\ At(p, "options", "done")
           /\ req[p].wrFail
           /\ req[p].status = 200

\* request p went down the warehouse path and every warehouse attempt failed
Exhausted(p) == req[p].op \in {"exec", "options"} /\ req[p].whFail

\* C11: a warehouse call that keeps failing is re-attempted twice (three
\* attempts in all) with a longer wait before each new attempt, and the
\* relational fallback starts only after the attempts are exhausted.
C11_RetryBackoff ==
    \A p \in Procs :
        /\ Exhausted(p) =>
              /\ req[p].attempt - 1 = 2
              /\ Len(req[p].waits) = req[p].attempt - 1
              /\ \A i \in 1..(Len(req[p].waits) - 1) : req[p].waits[i] < req[p].waits[i + 1]
        /\ req[p].pc = "fallback" => Exhausted(p)

\* What the code does for C11: a warehouse call that keeps failing is made
\* maxRetries times in all, so it is re-attempted once, after one wait of
\* two seconds, and the fallback starts only then.
C11_AttemptsNotRetries ==
    \A p \in Procs :
        /\ Exhausted(p) =>
              /\ req[p].attempt = maxRetries
              /\ req[p].waits = << waitTime(1) >>
        /\ req[p].pc = "fallback" => Exhausted(p)
        /\ req[p].attempt <= maxRetries

\* C12: the warehouse is contacted for a request only if the template the
\* request read is analytical and a warehouse connection is configured; a
\* template that is not analytical is sent to the primary relational backend
\* only; without a warehouse connection every request is answered by a
\* relational backend; the filter values play no part in the choice.
C12_BackendRouting ==
    \A p \in Procs :
        req[p].op \in {"exec", "options"} =>
            /\ req[p].attempt > 0 => (usesAnalyticsTables(req[p].sql) /\ warehouse)
            /\ (req[p].backend # "" /\ ~ usesAnalyticsTables(req[p].sql))
                  => (req[p].backend = "main" /\ req[p].attempt = 0 /\ req[p].calls = 1)
            /\ (req[p].backend # "" /\ ~ warehouse)
                  => req[p].backend \in {"main", "deliveries"}
            /\ (req[p].backend # "" /\ usesAnalyticsTables(req[p].sql))
                  => req[p].backend = IF warehouse /\ ~ req[p].whFail
                                      THEN "warehouse" ELSE "deliveries"

\* C12 witness: a template that is not analytical, rendered with a filter
\* value that names an analytical table, was answered by the primary
\* relational backend although a warehouse is configured.
C12_Witness ==
    \E p \in Procs :
        /\ At(p, "exec", "done")
        /\ req[p].status = 200
        /\ warehouse
        /\ req[p].sql = sqlMain
        /\ req[p].filters = << [k |-> kTier, v |-> vTable] >>
        /\ Includes(req[p].sent, tblDeliveries)
        /\ req[p].backend = "main"

\* C13: a relational backend (the primary one, or the relational fallback of
\* an analytical query) is called at most once per request, and when that
\* call fails the request ends as a failed execution: no rows, no cache
\* write, no second call.
C13_RelationalNotRetried ==
    \A p \in Procs :
        req[p].op \in {"exec", "options"} =>
            /\ req[p].calls <= 1
            /\ req[p].dbFail => /\ req[p].pc = "done"
                                /\ req[p].status = 500
                                /\ req[p].body = << >>
                                /\ ~ req[p].mine

\* C13 witness: the relational fallback of an analytical query failed, after
\* the warehouse had failed, and the request ended as a failed execution.
C13_Witness ==
    \E p \in Procs :
        /\ At(p, "exec", "done")
        /\ req[p].whFail
        /\ req[p].dbFail
        /\ req[p].backend = "deliveries"
        /\ req[p].calls = 1
        /\ req[p].status = 500

\* C14: an execute request whose identifier matches no active query when the
\* engine resolves it, in the route or in executeValidatedQuery, ends in a
\* 404 without rows, whatever runs concurrently with it.
C14_NotFoundIs404 ==
    \A p \in Procs :
        (req[p].op = "exec" /\ req[p].missing)
            => (req[p].pc = "done" /\ req[p].status = 404 /\ req[p].body = << >>)

\* C15: a filter-options request for a parameter that has no active filter
\* dimension, the store read having answered, ends in a 404.
C15_UnknownDimensionIs404 ==
    \A p \in Procs :
        (/\ At(p, "options", "done")
         /\ req[p].ident \notin DOMAIN filter_dimensions
         /\ ~ req[p].readFail)
            => req[p].status = 404

\* the keys that a step removes from the store
Removed == DOMAIN redis \ DOMAIN redis'

\* the step is the redis.del of the invalidation that request p runs
InvalidatedBy(p) == At(p, "update", "del") /\ req'[p].pc = "log"

\* the entries of query id qid
KeysOf(qid) == {k \in DOMAIN redis : k.ns = "validated_query" /\ k.qid = qid}

\* C16 (as stated): an invalidation removes only keys of its own query id
\* and leaves the snapshot rows as they are, and every entry that leaves the
\* store before its time to live is over is removed by an invalidation.
C16_InvalidationOnlyPath ==
    [][ /\ \A p \in Procs :
               InvalidatedBy(p) => (Removed \subseteq KeysOf(req[p].id) /\ results' = results)
        /\ \A k \in Removed :
               \/ redis[k].exp <= now'
               \/ \E p \in Procs : InvalidatedBy(p) ]_vars

\* C16 (amended): an invalidation removes only keys of its own query id and
\* leaves the snapshot rows as they are, and every result entry
\* (validated_query:*) that leaves the store before its time to live is over
\* is removed by an invalidation of its query; filter-option entries
\* (filter_options:*) are also removed by invalidateFilterCache.
C16_InvalidationOnlyPathForResults ==
    [][ /\ \A p \in Procs :
               InvalidatedBy(p) => (Removed \subseteq KeysOf(req[p].id) /\ results' = results)
        /\ \A k \in Removed :
               \/ redis[k].exp <= now'
               \/ \E p \in Procs : InvalidatedBy(p) /\ k \in KeysOf(req[p].id)
               \/ /\ k.ns = "filter_options"
                  /\ \E p \in Procs : At(p, "purge", "del") ]_vars

\* C16 witness: an invalidation has deleted the entry of its query while a
\* snapshot row was in the table.
C16_Witness ==
    \E p \in Procs :
        /\ req[p].op = "update"
        /\ req[p].pc \in {"log", "audit", "done"}
        /\ req[p].keys # {}
        /\ ~ req[p].wrFail
        /\ results # << >>

\* request p has changed the catalogue row of its query
Changed(p) ==
    /\ req[p].op = "update"
    /\ \/ req[p].pc \in {"keys", "del", "log", "audit"}
       \/ /\ req[p].pc = "done"
          /\ req[p].status = 200 \/ req[p].readFail \/ req[p].wrFail \/ req[p].snapFail

\* the number of cache_invalidations records that name query q
RecordsOf(q) == Cardinality({i \in 1..Len(invalidations) : invalidations[i].qid = q})

\* C17: every change of a query's catalogue row made by updateValidatedQuery
\* has one cache_invalidations record naming the query once the request is
\* over, and there are never more records than changes.
C17_OneRecordPerChange ==
    \A q \in DOMAIN catalogue :
        LET changes == {p \in Procs : Changed(p) /\ req[p].id = q}
            over == {p \in changes : req[p].pc = "done"}
        IN  /\ Cardinality(over) <= RecordsOf(q)
            /\ RecordsOf(q) <= Cardinality(changes)

\* What the code does guarantee for C17: every updateValidatedQuery that has
\* returned has its record, and there are never more records than changes.
C17_OneRecordPerReturnedUpdate ==
    \A q \in DOMAIN catalogue :
        LET changes == {p \in Procs : Changed(p) /\ req[p].id = q}
            returned == {p \in changes : Updated(p)}
        IN  /\ Cardinality(returned) <= RecordsOf(q)
            /\ RecordsOf(q) <= Cardinality(changes)

\* and the log is append-only: a step only adds records at the end
C17_AppendOnly ==
    [][ /\ Len(invalidations') >= Len(invalidations)
        /\ \A i \in 1..Len(invalidations) : invalidations'[i] = invalidations[i] ]_vars

(***************************************************************************)
(* The administration surface: POST /, PUT /:id, DELETE /:id, POST /test   *)
(***************************************************************************)
\* the names an administrator gives to a new query: one that an active query
\* already has, and a new one
CreateNames == {"AM_VOL", "KPI"}

\* const id = uuidv4(): the identifier that connection p's request draws
NewId(p) == IF p = 1 THEN "n1" ELSE "n2"

\* POST /: a body with every required field, or one without sql_text
StartCreate(p) ==
    /\ Idle(p)
    /\ \E name \in CreateNames, complete \in BOOLEAN :
           req' = [req EXCEPT ![p] =
                      IF complete
                      THEN [IdleReq EXCEPT !.op = "create", !.pc = "insert", !.ident = name,
                                           !.sql = sqlMain]
                      ELSE Reply([IdleReq EXCEPT !.op = "create", !.ident = name],
                                 400, FALSE, << >>)]
    /\ UNCHANGED << catalogue, redis, results, invalidations, audit_logs, now, ticks,
                    warehouse, first, rvars >>

\* createValidatedQuery: INSERT INTO validated_queries (the table has no
\* unique key on name)
CreateInsert(p) ==
    LET r == req[p]
        row == [name |-> r.ident, sql_text |-> r.sql, active |-> TRUE]
    IN  /\ At(p, "create", "insert")
        /\ \/ /\ catalogue' = [q \in DOMAIN catalogue \cup {NewId(p)} |->
                                  IF q = NewId(p) THEN row ELSE catalogue[q]]
              /\ req' = [req EXCEPT ![p] = [r EXCEPT !.id = NewId(p), !.pc = "audit"]]
           \/ /\ req' = [req EXCEPT ![p] = Reply([r EXCEPT !.dbFail = TRUE], 500, FALSE, << >>)]
              /\ UNCHANGED catalogue
        /\ UNCHANGED << redis, results, invalidations, audit_logs, now, ticks,
                        warehouse, first, rvars >>

\* the route writes the audit row, reads the query back and answers 201
CreateAudit(p) ==
    LET r == req[p]
    IN  /\ At(p, "create", "audit")
        /\ audit_logs' = Append(audit_logs,
                                [action |-> "create_validated_query", resource_id |-> r.id])
        /\ req' = [req EXCEPT ![p] =
                      Reply(r, 201, FALSE,
                            [ i \in 1..Cardinality(getValidatedQuery(catalogue, r.id)) |->
                                catalogue[r.id] ])]
        /\ UNCHANGED << catalogue, redis, results, invalidations, now, ticks,
                        warehouse, first, rvars >>

\* the bodies an administrator sends to PUT /:id: a new name, active again
AdminPatches ==
    {Patch("put", "name", << >>, "AM_REV", FALSE), Patch("put", "active", << >>, "", TRUE)}

\* PUT /:id with one of the administrator's bodies
StartAmend(p) ==
    /\ Idle(p)
    /\ \E ident \in Idents, patch \in AdminPatches :
           req' = [req EXCEPT ![p] =
                      [IdleReq EXCEPT !.op = "update", !.pc = "route", !.ident = ident,
                                      !.patch = patch]]
    /\ UNCHANGED << catalogue, redis, results, invalidations, audit_logs, now, ticks,
                    warehouse, first, rvars >>

\* DELETE /:id: updateValidatedQuery(existingQuery.id, { active: false })
StartDeactivate(p) ==
    /\ Idle(p)
    /\ \E ident \in Idents :
           req' = [req EXCEPT ![p] =
                      [IdleReq EXCEPT !.op = "update", !.pc = "route", !.ident = ident,
                                      !.patch = Patch("delete", "active", << >>, "", FALSE)]]
    /\ UNCHANGED << catalogue, redis, results, invalidations, audit_logs, now, ticks,
                    warehouse, first, rvars >>

\* the role in the caller's token
Roles == {"admin", "am"}

\* t -- c
sqlCommented == << "t"," ","-","-"," ","c" >>

\* the sql of the body of POST /test: two templates, one that ends in a
\* line comment, and none
TestSqls == {sqlMain, sqlAnalytics, sqlCommented, << >>}

\* ' LIMIT 100'
limit100 == << " ","L","I","M","I","T"," ","1","0","0" >>

\* the backends read two dashes and a space as the start of a comment that
\* runs to the end of the line: position i of the statement is inside one
InLineComment(s, i) ==
    \E j \in 1..(i - 1) :
        /\ StartsAt(s, j, << "-", "-", " " >>)
        /\ \A k \in j..(i - 1) : s[k] # "\n"

\* the numbers of rows the statement selects when nothing caps it
TableRows == {1, 101}

\* the number of rows a backend returns for the statement: the LIMIT 100 at
\* its end caps them unless it is inside a line comment
Returned(statement, n) ==
    IF InLineComment(statement, Len(statement) - Len(limit100) + 1) \/ n <= 100
    THEN n ELSE 100

\* POST /test: authenticateToken has accepted the caller's token, whatever
\* its role
StartTest(p) ==
    /\ Idle(p)
    /\ \E role \in Roles, sql \in TestSqls :
           req' = [req EXCEPT ![p] =
                      [IdleReq EXCEPT !.op = "test", !.pc = "route", !.role = role,
                                      !.sql = sql]]
    /\ UNCHANGED << catalogue, redis, results, invalidations, audit_logs, now, ticks,
                    warehouse, first, rvars >>

\* the route answers 400 without sql; testQuery normalizes the filters and
\* chooses the backend from the sql as given
TestRoute(p) ==
    LET r == req[p]
    IN  /\ At(p, "test", "route")
        /\ req' = [req EXCEPT ![p] =
                      IF r.sql = << >>
                      THEN Reply(r, 400, FALSE, << >>)
                      ELSE [r EXCEPT !.ff = applyDefaultFilters(r.filters, DayOf(now)),
                                     !.pc = backendOf(r.sql)]]
        /\ UNCHANGED << catalogue, redis, results, invalidations, audit_logs, now, ticks,
                        warehouse, first, rvars >>

\* executeRedshiftQueryWithRetry(redshiftSql + ' LIMIT 100'): rows, or an
\* error that is followed by a wait and a new attempt, or by the fallback
TestAttempt(p) ==
    \E r \in {[req[p] EXCEPT !.attempt = @ + 1, !.backend = "warehouse",
                              !.sent = applyRedshiftSchemaPrefix(
                                           replacePlaceholdersForRedshift(req[p].sql, req[p].ff))
                                       \o limit100]} :
        \/ \E rows \in RowSets, n \in TableRows :
               req' = [req EXCEPT ![p] =
                          Reply([r EXCEPT !.rows = rows, !.nrows = Returned(r.sent, n)],
                                200, FALSE, rows)]
        \/ req' = [req EXCEPT ![p] =
                      IF r.attempt < maxRetries
                      THEN [r EXCEPT !.waits = Append(@, waitTime(r.attempt))]
                      ELSE [r EXCEPT !.whFail = TRUE, !.pc = "fallback"]]

TestWarehouse(p) ==
    /\ At(p, "test", "warehouse")
    /\ TestAttempt(p)
    /\ UNCHANGED << catalogue, redis, results, invalidations, audit_logs, now, ticks,
                    warehouse, first, rvars >>

\* deliveriesDb.execute or dbConnection.execute of processedSql + ' LIMIT 100';
\* testQuery catches the error and returns success: false
TestRelational(p, backend) ==
    \E r \in {[req[p] EXCEPT !.backend = backend, !.calls = @ + 1,
                              !.sent = replacePlaceholders(req[p].sql, req[p].ff)
                                       \o limit100]} :
        \/ \E rows \in RowSets, n \in TableRows :
               req' = [req EXCEPT ![p] =
                          Reply([r EXCEPT !.rows = rows, !.nrows = Returned(r.sent, n)],
                                200, FALSE, rows)]
        \/ req' = [req EXCEPT ![p] = Reply([r EXCEPT !.dbFail = TRUE], 200, FALSE, << >>)]

TestFallback(p) ==
    /\ At(p, "test", "fallback")
    /\ TestRelational(p, "deliveries")
    /\ UNCHANGED << catalogue, redis, results, invalidations, audit_logs, now, ticks,
                    warehouse, first, rvars >>

TestDeliveries(p) ==
    /\ At(p, "test", "deliveries")
    /\ TestRelational(p, "deliveries")
    /\ UNCHANGED << catalogue, redis, results, invalidations, audit_logs, now, ticks,
                    warehouse, first, rvars >>

TestMain(p) ==
    /\ At(p, "test", "main")
    /\ TestRelational(p, "main")
    /\ UNCHANGED << catalogue, redis, results, invalidations, audit_logs, now, ticks,
                    warehouse, first, rvars >>

\* the administration surface on its own: queries are created, renamed,
\* reactivated and deactivated, and sql is tested
AdminNext ==
    \E p \in Procs :
        \/ StartCreate(p) \/ CreateInsert(p) \/ CreateAudit(p)
        \/ StartAmend(p) \/ StartDeactivate(p)
        \/ UpdateRoute(p) \/ UpdateCatalogue(p) \/ UpdateKeys(p) \/ UpdateDel(p)
        \/ UpdateLog(p) \/ UpdateAudit(p)
        \/ StartTest(p) \/ TestRoute(p) \/ TestWarehouse(p) \/ TestFallback(p)
        \/ TestDeliveries(p) \/ TestMain(p)

AdminSpec == Init /\ [][AdminNext]_vars

\* C18: no two active validated queries have the same name.
C18_ActiveNamesUnique ==
    \A q1 \in DOMAIN catalogue, q2 \in DOMAIN catalogue :
        (q1 # q2 /\ catalogue[q1].active /\ catalogue[q2].active)
            => catalogue[q1].name # catalogue[q2].name

\* C19: no step removes a catalogue row, and a query that is deactivated is
\* never active again.
C19_DeactivationTerminal ==
    [][ \A q \in DOMAIN catalogue :
            /\ q \in DOMAIN catalogue'
            /\ ~ catalogue[q].active => ~ catalogue'[q].active ]_vars

\* C20: a test request of a caller whose role is not admin sends no sql to
\* any backend.
C20_TestAdminOnly ==
    \A p \in Procs :
        (req[p].op = "test" /\ req[p].role # "admin")
            => (req[p].attempt = 0 /\ req[p].calls = 0 /\ req[p].sent = << >>)

\* the statement a test request has sent is the rendering of its sql for the
\* backend it went to, followed by ' LIMIT 100'
TestSent(p) ==
    LET r == req[p]
    IN  r.sent =
            (IF r.backend = "warehouse"
             THEN applyRedshiftSchemaPrefix(replacePlaceholdersForRedshift(r.sql, r.ff))
             ELSE replacePlaceholders(r.sql, r.ff)) \o limit100

\* C21: every statement the test path sends is the rendered sql followed by
\* LIMIT 100, and no test execution returns more than 100 rows.
C21_TestCapped ==
    \A p \in Procs :
        (req[p].op = "test" /\ req[p].sent # << >>)
            => (TestSent(p) /\ req[p].nrows <= 100)

\* what the code does guarantee: the text it sends ends in LIMIT 100
C21_TestSendsLimit ==
    \A p \in Procs : (req[p].op = "test" /\ req[p].sent # << >>) => TestSent(p)

\* and a step of the test path leaves the store and the snapshot table alone
C21_TestLeavesStores ==
    [][ (\E p \in Procs : req[p].op = "test" /\ req'[p] # req[p])
            => UNCHANGED << redis, results >> ]_vars

(***************************************************************************)
(* warmUpFilterCache, at process start and every six hours                 *)
(***************************************************************************)
\* dimensions.filter(dim => dim.control === 'select' || dim.control === 'multiselect')
filterDimensions ==
    SelectSeq(getFilterDimensions,
              LAMBDA param : dimension_control[param] \in {"select", "multiselect"})

\* getFilterOptions(dimension.sql_param) of the warm-up that request r is
CallOptions(r, todo) ==
    [r EXCEPT !.op = "options", !.pc = "get", !.ident = Head(todo), !.todo = Tail(todo),
              !.key = generateFilterCacheKey(Head(todo)),
              !.status = 0, !.cached = FALSE, !.body = << >>, !.rows = << >>,
              !.sql = << >>, !.sent = << >>, !.backend = "", !.attempt = 0, !.calls = 0,
              !.waits = << >>, !.readFail = FALSE, !.whFail = FALSE, !.dbFail = FALSE,
              !.wrFail = FALSE, !.mine = FALSE]

\* the warm-up begins: the dimensions are read (an error ends the warm-up)
\* and the first getFilterOptions is called
StartWarmUp(p) ==
    /\ Idle(p)
    /\ \/ req' = [req EXCEPT ![p] =
                     IF filterDimensions = << >>
                     THEN Reply([IdleReq EXCEPT !.op = "warm", !.warm = TRUE], 0, FALSE, << >>)
                     ELSE CallOptions([IdleReq EXCEPT !.warm = TRUE], filterDimensions)]
       \/ req' = [req EXCEPT ![p] =
                     Reply([IdleReq EXCEPT !.op = "warm", !.warm = TRUE, !.dbFail = TRUE],
                           0, FALSE, << >>)]
    /\ UNCHANGED << catalogue, redis, results, invalidations, audit_logs, now, ticks,
                    warehouse, first, rvars >>

\* a getFilterOptions of the loop has returned or thrown (the error is
\* caught): the next dimension follows, or the warm-up is complete
WarmUpLoop(p) ==
    LET r == req[p]
        s == [r EXCEPT !.hits = IF r.status = 200 /\ r.cached THEN @ \cup {r.ident} ELSE @,
                       !.fetched = IF r.status = 200 /\ ~ r.cached THEN @ \cup {r.ident} ELSE @,
                       !.failed = IF r.status # 200 THEN @ \cup {r.ident} ELSE @]
    IN  /\ r.warm
        /\ At(p, "options", "done")
        /\ req' = [req EXCEPT ![p] =
                      IF r.todo = << >>
                      THEN [s EXCEPT !.op = "warm"]
                      ELSE CallOptions(s, r.todo)]
        /\ UNCHANGED << catalogue, redis, results, invalidations, audit_logs, now, ticks,
                        warehouse, first, rvars >>

\* the store as a process finds it when it starts: empty, or with the options
\* of tier that the process before it cached an hour ago
WarmStores ==
    {[k \in K |-> [text |-> JSONStringify(rowsCounted),
                   exp |-> StartSecond - 3600 + FILTER_CACHE_TTL]]
        : K \in SUBSET {generateFilterCacheKey("tier")}}

WarmInit ==
    /\ catalogue = SeedCatalogue
    /\ redis \in WarmStores
    /\ results = << >>
    /\ invalidations = << >>
    /\ audit_logs = << >>
    /\ now = StartSecond
    /\ ticks = 0
    /\ warehouse \in BOOLEAN
    /\ req = [p \in Procs |-> IdleReq]
    /\ first = NoFirst
    /\ rin = [sql |-> tplGuard, pairs |-> << >>]
    /\ rout = NoOutput

\* the warm-up, the requests for options and the purge of the filter cache
WarmNext ==
    \/ \E p \in Procs :
           \/ StartWarmUp(p) \/ WarmUpLoop(p)
           \/ StartOptions(p) \/ OptionsCacheGet(p) \/ OptionsDimension(p)
           \/ OptionsWarehouse(p) \/ OptionsFallback(p) \/ OptionsDeliveries(p)
           \/ OptionsMain(p) \/ OptionsCacheSet(p)
           \/ StartPurge(p) \/ PurgeKeys(p) \/ PurgeDel(p)
    \/ Tick

WarmSpec == WarmInit /\ [][WarmNext]_vars

\* C22: when a warm-up is complete, the options of every select or
\* multiselect dimension whose getFilterOptions did not fail were fetched
\* from a backend during that warm-up.
C22_WarmUpRefreshes ==
    \A p \in Procs :
        (req[p].warm /\ At(p, "warm", "done") /\ ~ req[p].dbFail)
            => \A i \in 1..Len(filterDimensions) :
                   filterDimensions[i] \in req[p].failed \cup req[p].fetched

\* what the code does guarantee: a dimension that the warm-up found without
\* an entry in the store is fetched, or its getFilterOptions failed
C22_WarmUpFillsMisses ==
    \A p \in Procs :
        (req[p].warm /\ At(p, "warm", "done") /\ ~ req[p].dbFail)
            => /\ \A i \in 1..Len(filterDimensions) :
                      filterDimensions[i] \in req[p].failed \cup req[p].fetched \cup req[p].hits
               /\ "start_date" \notin req[p].failed \cup req[p].fetched \cup req[p].hits

\* C23: a step never changes or removes an existing snapshot row: the row of
\* (queryId, runTimestamp) keeps the filters and the result of the execution
\* that wrote it.
C23_SnapshotRowsKept ==
    [][ \A pk \in DOMAIN results :
            pk \in DOMAIN results' /\ results'[pk] = results[pk] ]_vars

\* the step is one of request p's own
Stepped(p) == req'[p].pc # req[p].pc \/ req'[p].attempt # req[p].attempt

\* C24: a step of an execution changes the store or the snapshot table only
\* when it is the write that follows a backend's rows on a miss; an execution
\* answered from the store has contacted no backend, and one that failed has
\* no rows to write.
C24_WriteOnlyOnMiss ==
    [][ \A p \in Procs :
            /\ (/\ req[p].op = "exec"
                /\ Stepped(p)
                /\ (redis' # redis \/ results' # results))
                   => /\ req[p].pc \in {"set", "snapshot"}
                      /\ req[p].rows \in RowSets
                      /\ req[p].backend \in {"warehouse", "deliveries", "main"}
                      /\ req[p].sent # << >>
                      /\ ~ req[p].missing
            /\ (req'[p].op = "exec" /\ req'[p].pc = "done" /\ req'[p].cached)
                   => /\ req'[p].attempt = 0 /\ req'[p].calls = 0
                      /\ req'[p].sent = << >> /\ req'[p].backend = ""
            /\ (req'[p].op = "exec" /\ req'[p].pc = "done" /\ req'[p].status # 200)
                   => req'[p].rows = << >> ]_vars

\* one execution was answered from the store and another failed on every
\* backend, and the store holds what it held at the start
C24_Witness ==
    /\ \E p \in Procs : At(p, "exec", "done") /\ req[p].cached
    /\ \E p \in Procs : At(p, "exec", "done") /\ req[p].whFail /\ req[p].dbFail
    /\ redis = WarmStore
    /\ results = << >>

opNotEqual == << "!", "=" >>

\* the text with every comparison of NULL by = replaced by IS NULL and by !=
\* replaced by IS NOT NULL, an = that ends another operator left alone
NotEqualNull(s, j) ==
    StartsAt(s, j, opNotEqual) /\ StartsAtCI(s, RunEnd(s, j + 2, Space), kwNULL)

EqualNull(s, j) ==
    /\ s[j] = "="
    /\ (j = 1 \/ s[j - 1] \notin {"<", ">", "!"})
    /\ StartsAtCI(s, RunEnd(s, j + 1, Space), kwNULL)

RECURSIVE NullComparisonsRewritten(_, _)
\* the comparison at index m is by != (ne) or by =
NullComparisonAt(s, i, m, ne) ==
    IF m = 0 THEN Sub(s, i, Len(s))
    ELSE Sub(s, i, m - 1)
             \o (IF ne THEN sqlIsNotNull ELSE sqlIsNull)
             \o NullComparisonsRewritten(
                    s, RunEnd(s, IF ne THEN m + 2 ELSE m + 1, Space) + Len(kwNULL))

NullComparisonNext(s, i, m) ==
    NullComparisonAt(s, i, m, IF m = 0 THEN FALSE ELSE NotEqualNull(s, m))

NullComparisonsRewritten(s, i) ==
    NullComparisonNext(s, i,
                       Leftmost({j \in i..Len(s) : NotEqualNull(s, j) \/ EqualNull(s, j)}))

\* C25: the statement the warehouse receives is the rendered text with every
\* = NULL rewritten to IS NULL and every != NULL to IS NOT NULL, and no other
\* operator touched.
C25_NullComparisons ==
    rout.op = "dialect"
        => rout.text =
               NullComparisonsRewritten(
                   PrefixTablesFrom(
                       ReplaceSchemaFrom(replacePlaceholdersForRedshift(rin.sql, Filters), 1), 1), 1)

\* what the code does guarantee: a template that compares by = only is
\* rewritten as described
C25_EqualityOnly ==
    (rout.op = "dialect" /\ rin.sql \in {tplGuard, tplGuardMixedCase, tplPrefix})
        => rout.text =
               NullComparisonsRewritten(
                   PrefixTablesFrom(
                       ReplaceSchemaFrom(replacePlaceholdersForRedshift(rin.sql, Filters), 1), 1), 1)

\* C26: no request is answered with the rows of another's backend call: an
\* execution that missed the store and answered 200 has rendered the
\* template and contacted a backend itself.
C26_NoCoalescing ==
    \A p \in Procs :
        (At(p, "exec", "done") /\ req[p].status = 200 /\ ~ req[p].cached)
            => /\ req[p].sent # << >>
               /\ req[p].backend \in {"warehouse", "deliveries", "main"}
               /\ req[p].attempt + req[p].calls >= 1

\* two requests for the same query and filters have both missed, both sent
\* the same statement to the backend and both answered cached=false
C26_Witness ==
    \E p, q \in Procs :
        /\ p # q
        /\ At(p, "exec", "done") /\ At(q, "exec", "done")
        /\ req[p].key = req[q].key
        /\ req[p].id = req[q].id /\ req[p].ff = req[q].ff
        /\ req[p].status = 200 /\ req[q].status = 200
        /\ ~ req[p].cached /\ ~ req[q].cached
        /\ req[p].sent = req[q].sent /\ req[p].sent # << >>

\* request q holds, under the id of the query that update p changed, the
\* entry it wrote from a template other than the one p stored
StaleEntry(p, q) ==
    /\ req[q].op = "exec"
    /\ req[q].mine
    /\ req[q].key \in DOMAIN redis
    /\ req[q].id = req[p].id
    /\ req[q].sql # req[p].patch.text

\* C27: when an update of the template has returned, the store holds no
\* entry of that query whose rows were produced from the template in force
\* before the update.
C27_NoStaleEntryAfterUpdate ==
    \A p \in Procs :
        (At(p, "update", "done") /\ req[p].status = 200 /\ req[p].patch.field = "sql_text")
            => \A q \in Procs : ~ StaleEntry(p, q)

\* what the code does guarantee: the entries that were in the store when the
\* update deleted the keys are not there when it returns
C27_NoOldEntryAfterUpdate ==
    \A p \in Procs :
        (At(p, "update", "done") /\ req[p].status = 200) => req[p].stale = {}


(***************************************************************************)
(* Isolation of the cached results                                         *)
(***************************************************************************)
\* a filter object as a map: the set of its pairs
AsMap(obj) == {obj[i] : i \in DOMAIN obj}

\* execution p was answered from the store
Hit(p) == At(p, "exec", "done") /\ req[p].status = 200 /\ req[p].cached

\* C28: every cache hit of executeValidatedQuery for query q and normalized
\* filters f carries rows that an earlier execution of the same query id q
\* with a filter map equal to f stored, whether the query is addressed by its
\* id or by its name.
C28_HitIsolation ==
    \A p \in Procs :
        Hit(p) => /\ req[p].from.qid = req[p].id
                  /\ AsMap(req[p].from.ff) = AsMap(req[p].ff)

\* a query addressed by its name is answered with what another execution of
\* this run stored for it under filters chosen by the caller
C28_Witness ==
    \E p, q \in Procs :
        /\ p # q
        /\ Hit(p)
        /\ req[p].ident = "AM_REV"
        /\ req[p].filters # << >>
        /\ At(q, "exec", "done") /\ req[q].status = 200 /\ ~ req[q].cached
        /\ req[q].id = req[p].id
        /\ req[p].from = [qid |-> req[q].id, ff |-> req[q].ff]


(***************************************************************************)
(* Substitution in one pass                                                *)
(***************************************************************************)
\* a value whose literal is the same under every reading of the renderer:
\* not given, a number, or a single string without a replacement pattern
PlainValue(v) ==
    \/ NoValue(v)
    \/ BlankList(v)
    \/ v.t = "number"
    \/ SingleString(v) /\ "$" \notin Range(v.s)

\* name a is the beginning of the longer name b
ProperPrefix(a, b) == Len(a) < Len(b) /\ Sub(b, 1, Len(a)) = a

\* C29: replacePlaceholders is a simultaneous substitution in one pass: each
\* :name token of the template is replaced by the literal of filters[name]
\* and by nothing else, whatever the other placeholder names of the template
\* are (one name may be the beginning of another) and whatever text the
\* substituted values hold (a value may read like a placeholder).
C29_SinglePass ==
    (/\ rout.op = "render"
     /\ Tokens(rin.sql) # {}
     /\ ~ Includes(rin.sql, << ":", ":" >>)
     /\ \A name \in Tokens(rin.sql) : PlainValue(Get(Filters, name)))
        => rout.text = ExpectedFrom(rin.sql, Filters, 1)

\* the same, for the templates in which no placeholder name begins another
\* (what is left to fail is a value that reads like a placeholder)
C29_DistinctNames ==
    (/\ rout.op = "render"
     /\ Tokens(rin.sql) # {}
     /\ ~ Includes(rin.sql, << ":", ":" >>)
     /\ \A a, b \in Tokens(rin.sql) : ~ ProperPrefix(a, b)
     /\ \A name \in Tokens(rin.sql) : PlainValue(Get(Filters, name)))
        => rout.text = ExpectedFrom(rin.sql, Filters, 1)

\* the same, when in addition no value holds a colon: the renderer then
\* agrees with the substitution in one pass
C29_PlainTemplates ==
    (/\ rout.op = "render"
     /\ Tokens(rin.sql) # {}
     /\ ~ Includes(rin.sql, << ":", ":" >>)
     /\ \A a, b \in Tokens(rin.sql) : ~ ProperPrefix(a, b)
     /\ \A name \in Tokens(rin.sql) :
            /\ PlainValue(Get(Filters, name))
            /\ ":" \notin Range(Get(Filters, name).s))
        => rout.text = ExpectedFrom(rin.sql, Filters, 1)


(***************************************************************************)
(* A failed update                                                         *)
(***************************************************************************)
\* the update of p was answered 500 because invalidateQueryCache raised: in
\* the key scan, in the delete or in the insert of the invalidation record
InvalidationFailed(p) ==
    /\ At(p, "update", "done")
    /\ req[p].status = 500
    /\ req[p].readFail \/ req[p].wrFail \/ req[p].snapFail

\* p is the only update that was started
OnlyUpdate(p) == \A q \in Procs \ {p} : req[q].op # "update"

\* C30: updateValidatedQuery keeps the catalogue and the cache consistent on
\* error: when it fails in the key scan, in the delete or in the insert of
\* the invalidation record, the catalogue definition is left unchanged.
C30_FailureLeavesCatalogue ==
    \A p \in Procs :
        (InvalidationFailed(p) /\ OnlyUpdate(p)) => catalogue = SeedCatalogue

\* the other reading of C30: whenever an update has changed the definition
\* of a query and has ended, the entries the query had in the store at the
\* change have been deleted
C30_ChangedImpliesDeleted ==
    \A p \in Procs :
        (At(p, "update", "done") /\ OnlyUpdate(p) /\ catalogue # SeedCatalogue)
            => req[p].stale = {}

\* when the UPDATE statement itself raises, the catalogue is left unchanged
C30_UpdateFailureLeavesCatalogue ==
    \A p \in Procs :
        (At(p, "update", "done") /\ req[p].dbFail /\ OnlyUpdate(p))
            => catalogue = SeedCatalogue

=============================================================================
